---- MODULE Spec2Model ----
(***************************************************************************)
(* A model of the shenzhen-vm concurrency fabric: the Scheduler            *)
(* (src/src/scheduler.rs), the XBus rendezvous protocol (src/src/xbus.rs), *)
(* the controller thread loop (src/src/controller.rs) and the queued       *)
(* input source / output sink peripherals (src/src/components).            *)
(*                                                                         *)
(* Threads: one driver thread that runs the scheduler (advance, end) and   *)
(* injects input, and one thread per controller.  Every step that touches  *)
(* shared state (a bus's mutex-protected Inner, the scheduler's inbound    *)
(* channel, a wakeup channel) is one action; the threads interleave freely.*)
(***************************************************************************)
EXTENDS Integers, Sequences, FiniteSets, TLC

(* ------------------------------ bounds -------------------------------- *)

\* advance() is called while time < MaxTime
MaxTime == 2
\* inject() is called while the source's queue is shorter than MaxQueue
MaxQueue == 1
\* FileRunner::verify reads at most MaxRows data rows (one advance() per row)
MaxRows == 3
\* FileRunner::verify injects while the source's queue is shorter than MaxBurst
MaxBurst == 2
\* FileRunner::verify calls advance() while every output sink holds fewer than
\* MaxHeld values (a sink with no column in the header is never emptied)
MaxHeld == 2

(* -------------------------- program constants ------------------------- *)

\* InputSource::read of an empty nonblocking queue: unwrap_or(-999)
EmptyRead == -999
\* Scheduler::end sets time to -1
EndTime == -1
\* MemInner.contents: [i32; 14]
MemSize == 14
\* the value an expander and gen! store in a simple pin that is on
PinHigh == 100
\* Expander::read: a pin counts as on when its value is >= 50
PinThreshold == 50

(* ------------------------------ topology ------------------------------ *)

\* x, y: XBus::new() with nothing connected; in: inputsource::blocking();
\* nb: inputsource::nonblocking(); out: a bus with two sinks connected
\* (connect_sink twice); two: a bus with two blocking sources connected
\* (connect_source twice); ex: expander::new(Some(p0), Some(p1), Some(p2));
\* addr0, addr1, data0, data1: the four buses of memory::ram()
Buses == {"x", "y", "in", "nb", "out", "two", "ex", "addr0", "addr1", "data0", "data1"}
SourceIds == {"bsrc", "nsrc", "s1", "s2"}
SinkIds == {"snk", "snk2"}
Pins == {"p", "q", "p0", "p1", "p2"}

\* the Expander of bus ex, and the AddrPin and DataPin objects of the RAM
AddrPins == {"a0", "a1"}
DataPins == {"d0", "d1"}

\* AddrPin.index, DataPin.index
PinIndex(s) == IF s \in {"a0", "d0"} THEN 0 ELSE 1

\* InputSource.source_type, and the kind of the other peripherals
SourceType(s) ==
  CASE s = "nsrc" -> "NonBlocking"
    [] s = "exp" -> "Expander"
    [] s \in AddrPins -> "AddrPin"
    [] s \in DataPins -> "DataPin"
    [] OTHER -> "Blocking"

\* Inner.sources of each bus, in registration order (connect_source)
Sources(b) ==
  CASE b = "in" -> <<"bsrc">>
    [] b = "nb" -> <<"nsrc">>
    [] b = "two" -> <<"s1", "s2">>
    [] b = "ex" -> <<"exp">>
    [] b = "addr0" -> <<"a0">>
    [] b = "addr1" -> <<"a1">>
    [] b = "data0" -> <<"d0">>
    [] b = "data1" -> <<"d1">>
    [] OTHER -> <<>>

\* Inner.sinks of each bus, in registration order (connect_sink)
Sinks(b) ==
  CASE b = "out" -> <<"snk", "snk2">>
    [] b = "ex" -> <<"exp">>
    [] b = "addr0" -> <<"a0">>
    [] b = "addr1" -> <<"a1">>
    [] b = "data0" -> <<"d0">>
    [] b = "data1" -> <<"d1">>
    [] OTHER -> <<>>

\* values injected by the driver
InVals == {1, 2}

\* values the data rows of FileRunner give to the simple input pin q
PinVals == {3, 10}

\* values of acc and of dat before a dgt or dst, the constant values given to
\* dst, and the digit indexes (0, 1, 2, and one that is no digit)
AccVals == {573, -573, 40, 1234}
DatVals == {4, 17, -3}
DstVals == {0, 9}
DigitIndexes == {0, 1, 2, 3}

\* values written to the expander bus, and to the address buses of the RAM
ExpVals == {0, 7, -40, 105, 573, -999, 1000, 2050}
AddrVals == {-15, -1, 0, 5, 14, 27}

(* ------------------------- controller bodies -------------------------- *)

\* One instruction of a controller body.  src says which value a write, a
\* store or a mov takes: a constant, a register, or acc + dat / acc - dat.
Ins(op, n, b, src, v, p) ==
  [op |-> op, n |-> n, bus |-> b, src |-> src, val |-> v, pin |-> p]
Slp(n) == Ins("slp", n, "none", "const", 0, "none")
Slx(b) == Ins("slx", 0, b, "const", 0, "none")
Rd(b) == Ins("read", 0, b, "const", 0, "none")
Wr(b, v) == Ins("write", 0, b, "const", v, "none")
WrAcc(b) == Ins("write", 0, b, "acc", 0, "none")
WrDat(b) == Ins("write", 0, b, "dat", 0, "none")
WrSum(b) == Ins("write", 0, b, "sum", 0, "none")
Store(v) == Ins("store", 0, "none", "const", v, "p")
StoreDiff(p) == Ins("store", 0, "none", "diff", 0, p)
Load(p) == Ins("load", 0, "none", "const", 0, p)
Mov(v) == Ins("mov", 0, "none", "const", v, "none")
Movd(v) == Ins("movd", 0, "none", "const", v, "none")
Spin == Ins("spin", 0, "none", "const", 0, "none")
\* reg.dgt(index); reg.dst(index, value) with a constant or with reg.dat;
\* pin.store(reg.acc)
Dgt(index) == Ins("dgt", index, "none", "const", 0, "none")
Dst(index, v) == Ins("dst", index, "none", "const", v, "none")
DstDat(index) == Ins("dst", index, "none", "dat", 0, "none")
StoreAcc(p) == Ins("store", 0, "none", "acc", 0, p)

\* the gen! macro: its expansion in the body that uses it
gen_off_only(p, on_steps, off_steps) ==
  (IF on_steps > 0
     THEN <<{Ins("store", 0, "none", "const", PinHigh, p)}, {Slp(on_steps)}>>
     ELSE <<>>)
  \o (IF off_steps > 0
        THEN <<{Ins("store", 0, "none", "const", 0, p)}, {Slp(off_steps)}>>
        ELSE <<>>)
gen(p, on_steps, off_steps) ==
  (IF on_steps > 0
     THEN <<{Ins("store", 0, "none", "const", PinHigh, p)}, {Slp(on_steps)}>>
     ELSE <<>>)
  \o <<{Ins("store", 0, "none", "const", 0, p)}>>
  \o (IF off_steps > 0 THEN <<{Slp(off_steps)}>> ELSE <<>>)

\* The bodies (Controller::execute) the model runs, by configuration.  A body
\* is a sequence of instruction sets: at each position the body executes any
\* one instruction of the set; execute() is called again when it returns Ok.
Bodies ==
  [ doubler   |-> [a |-> <<{Slx("in")}, {Rd("in")}, {WrAcc("out")}, {Store(1), Store(2)}>>],
    rendez    |-> [a |-> <<{Wr("x", 1), Wr("x", 2)}, {Slp(1), Slp(2)}>>,
                   b |-> <<{Rd("x")}, {WrAcc("out")}, {Slp(1)}>>],
    deadlock2 |-> [a |-> <<{Rd("x")}>>,
                   b |-> <<{Rd("y"), Rd("x")}>>],
    pingpong  |-> [a |-> <<{Wr("x", 1)}>>,
                   b |-> <<{Rd("x")}>>],
    race      |-> [a |-> <<{Wr("x", 1)}, {Slp(1)}>>,
                   b |-> <<{Wr("x", 2)}, {Slp(1)}>>,
                   c |-> <<{Slx("x")}, {Rd("x")}, {WrAcc("out")}>>],
    readers   |-> [a |-> <<{Rd("x")}, {WrAcc("out")}, {Slp(1)}>>,
                   b |-> <<{Rd("x")}, {Store(1)}, {Slp(1), Slp(0)}>>,
                   c |-> <<{Wr("x", 1)}, {Wr("x", 2)}, {Slp(1)}>>],
    mixed     |-> [a |-> <<{Wr("in", 1), Wr("out", 2)}, {Slp(1)}>>,
                   b |-> <<{Rd("in")}, {WrAcc("out"), Rd("out")}, {Slp(1)}>>],
    nonblock  |-> [a |-> <<{Rd("nb")}, {WrAcc("out")}, {Slp(1)}>>],
    twosrc    |-> [a |-> <<{Rd("two")}, {WrAcc("out")}, {Slp(1)}>>],
    slx2      |-> [a |-> <<{Wr("x", 1)}, {Slp(1)}>>,
                   b |-> <<{Slx("x")}, {Rd("x")}, {Slp(1)}>>,
                   c |-> <<{Slx("x")}, {Slp(1)}>>],
    spin      |-> [a |-> <<{Slp(1)}, {Spin}>>],
    spin0     |-> [a |-> <<{Spin}>>,
                   b |-> <<{Slp(1)}>>] ]

Configs == DOMAIN Bodies

\* a body that sets pointer 0 of the RAM to 0, writes 1, ..., n to data0, sets
\* the pointer to 0 again, and reads data0 n times, passing each value read
\* to the output sink
RamSeq(n) ==
  <<{Wr("addr0", 0)}>>
  \o [i \in 1..n |-> {Wr("data0", i)}]
  \o <<{Wr("addr0", 0)}>>
  \o [i \in 1..(2 * n) |-> IF i % 2 = 1 THEN {Rd("data0")} ELSE {WrAcc("out")}]
  \o <<{Slp(1)}>>

\* a body that writes acc to address bus `addr`, dat to data bus `data`, acc
\* to `addr` again and reads `data`; acc and dat are chosen first
RamRoundTrip(addr, data) ==
  <<{Mov(p) : p \in AddrVals}, {Movd(v) : v \in InVals},
    {WrAcc(addr)}, {WrDat(data)}, {WrAcc(addr)}, {Rd(data)}, {Slp(1)}>>

\* The bodies run under FileRunner::verify.  math: Math::execute of
\* examples/doubler.rs (the locals a and b are acc and dat); pulse*: a gen!
\* followed by a bus write, as in examples/meat-based-printer.rs.
BenchBodies ==
  [ math     |-> [a |-> <<{Slx("in")}, {Rd("in")}, {Load("q")}, {WrSum("out")},
                          {StoreDiff("p")}>>],
    expand   |-> [a |-> <<{Movd(v) : v \in ExpVals}, {WrDat("ex")}, {Rd("ex")}, {Slp(1)}>>],
    ram0     |-> [a |-> RamRoundTrip("addr0", "data0")],
    ram1     |-> [a |-> RamRoundTrip("addr1", "data1")],
    ramq     |-> [a |-> <<{Wr("addr0", 0)}, {Wr("data0", 5)}, {Wr("data0", 7)},
                          {Wr("data0", 9)}, {Wr("addr1", 0)},
                          {Rd("data1")}, {WrAcc("out")}, {Rd("data1")}, {WrAcc("out")},
                          {Rd("data1")}, {WrAcc("out")}, {Slp(1)}>>],
    ramseq14 |-> [a |-> RamSeq(MemSize)],
    ramseq15 |-> [a |-> RamSeq(MemSize + 1)],
    pulse21  |-> [a |-> gen("p", 2, 1) \o <<{Wr("out", 1)}>>],
    pulse12  |-> [a |-> gen("p", 1, 2) \o <<{Wr("out", 1)}>>],
    pulse10  |-> [a |-> gen("p", 1, 0) \o <<{Wr("out", 1)}>>],
    digits   |-> [a |-> <<{Mov(v) : v \in AccVals}, {Movd(v) : v \in DatVals},
                          {Dgt(i) : i \in DigitIndexes}
                            \cup {Dst(i, v) : i \in DigitIndexes, v \in DstVals}
                            \cup {DstDat(i) : i \in DigitIndexes},
                          {StoreAcc("p")}, {Slp(1)}>>],
    rdin     |-> [a |-> <<{Rd("in")}, {WrAcc("out")}, {Slp(1)}>>],
    rdnb     |-> [a |-> <<{Rd("nb")}, {WrAcc("out")}, {Slp(1)}>>],
    stuck    |-> [a |-> <<{Rd("x")}, {WrAcc("out")}, {Slp(1)}>>,
                  b |-> <<{Wr("y", 1), Wr("x", 2)}, {Slp(1)}>>] ]

AllBodies == Bodies @@ BenchBodies

\* the programs run under FileRunner::verify
BenchConfigs == DOMAIN BenchBodies \cup {"spin0", "rendez"}

VARIABLES
  cfg,              \* the configuration (the controller bodies) of this run
  time,             \* Scheduler.time
  sleepers,         \* Scheduler.sleepers: name -> token (with its wakeup sender)
  chan,             \* the inbound channel Scheduler.receiver reads: SleepMessages in flight
  spc,              \* where the driver thread is
  todo,             \* advance(): entries of sleepers.iter() not yet visited in this pass
  checked,          \* advance(): the entry whose can_run is true and whose send(true) is due
  run_count,        \* advance(): run_count
  expected_count,   \* await_sleepers(): expected_count
  receive_count,    \* await_sleepers(): receive_count
  wake,             \* per controller: what its wakeup_receiver holds
  cstate,           \* per controller thread: "run", "post", "parked", "done"
  ip,               \* per controller: position in its body (0: the startup sleep)
  tok,              \* per controller: the token it posts / is parked with
  acc,              \* per controller: Regs.acc (holds the value of its last read)
  cell,             \* per controller: the Arc<AtomicI32> cell of its pending read
  pending_readers,  \* per bus: keys of Inner.pending_readers
  pending_writers,  \* per bus: Inner.pending_writers, name -> value
  queue,            \* per input source: InputSource.queue
  sinkq,            \* per output sink: OutputSink.queue
  pin,              \* simple pins (Arc<AtomicI32>)
  delivered,        \* history: per controller, recipients of the value of its current write
  ev,               \* history: what the step that led here did
  run,              \* history: 0, or which of two compared runs this is (1, 2)
  inlog,            \* history (run > 0): the injections so far, each with its time
  saved,            \* history (run = 2): what the first run showed when it was stopped
  hist,             \* history: per controller, when it parked and what it has seen since
  dat,              \* per controller: Regs.dat
  mem,              \* the RAM: MemInner (contents, pointers)
  lock,             \* per bus: the thread that holds the Mutex of its Inner, or "none"
  row               \* FileRunner::verify: the data row it is processing

vars == <<cfg, time, sleepers, chan, spc, todo, checked, run_count, expected_count,
          receive_count, wake, cstate, ip, tok, acc, cell, pending_readers,
          pending_writers, queue, sinkq, pin, delivered, ev, run, inlog, saved,
          hist, dat, mem, lock, row>>

benchVars == <<dat, mem, lock, row>>

schedVars == <<time, sleepers, spc, todo, checked, run_count, expected_count, receive_count>>
busVars == <<pending_readers, pending_writers, queue, sinkq, cell>>

\* the controllers of this run and their number (Scheduler.controller_count)
Ctrl == DOMAIN AllBodies[cfg]
controller_count == Cardinality(Ctrl)
Body(c) == AllBodies[cfg][c]

\* the buses the controllers of this run hold, and the input sources
\* connected to them (the ones the driver of this run injects into)
BusesInUse ==
  {ins.bus : ins \in UNION {UNION {Body(c)[i] : i \in 1..Len(Body(c))} : c \in Ctrl}}
SourcesInUse ==
  {s \in SourceIds : \E b \in BusesInUse : \E i \in 1..Len(Sources(b)) : Sources(b)[i] = s}

\* the simple pins the controllers of this run load (the simple inputs)
InputPinsInUse ==
  {ins.pin : ins \in {i \in UNION {UNION {Body(c)[k] : k \in 1..Len(Body(c))} : c \in Ctrl} :
                        i.op = "load"}}

(* ------------------------------ tokens -------------------------------- *)

TimeTok(t) == [kind |-> "Time", t |-> t, bus |-> "none"]
BusTok(k, b) == [kind |-> k, t |-> 0, bus |-> b]

\* is_blocking
is_blocking_nowrite(token) == token.kind = "XBusRead"
is_blocking_noread(token) == token.kind = "XBusWrite"
is_blocking(token) == token.kind \in {"XBusRead", "XBusWrite"}

Event(k, c, b, v, p) == [kind |-> k, c |-> c, bus |-> b, val |-> v, peer |-> p]
NoEvent(k) == Event(k, "none", "none", 0, "none")

\* what a run has shown to its driver when advance() has returned `t` times
Snapshot(t, ins, sink, pins) == [t |-> t, inlog |-> ins, sink |-> sink, pin |-> pins]
NoSnapshot == Snapshot(0, <<>>, <<>>, <<>>)

(* ----------------------------- peripherals ---------------------------- *)

\* InputSource::can_read
SourceCanRead(s) ==
  IF SourceType(s) = "Blocking" THEN queue[s] # <<>> ELSE TRUE

\* InputSource::read: the value returned (pop_front, or -999 for an empty
\* nonblocking queue)
SourceValueNewest(s) == IF queue[s] # <<>> THEN queue[s][Len(queue[s])] ELSE EmptyRead
SourceValue(s) == IF queue[s] # <<>> THEN Head(queue[s]) ELSE EmptyRead

\* InputSource::read: the queue it leaves
SourceRest(s) == IF queue[s] # <<>> THEN Tail(queue[s]) ELSE queue[s]

\* OutputSink::write: push_back
SinkWrite(q, v) == Append(q, v)

\* OutputSink::queue_into: the queue is emptied
QueueInto(q) == <<>>

\* i32::abs, and the `%` of Rust on i32 (the remainder has the sign of the
\* dividend)
Abs(v) == IF v < 0 THEN -v ELSE v
RustRem(a, n) == IF a >= 0 THEN a % n ELSE -((-a) % n)
\* the `/` of Rust on i32 (the quotient is truncated toward zero)
RustDiv(a, n) == IF a >= 0 THEN a \div n ELSE -((-a) \div n)

\* Regs::dgt: the acc it leaves
RegsDgt(a, index) ==
  CASE index = 0 -> RustRem(a, 10)
    [] index = 1 -> RustRem(RustDiv(a, 10), 10)
    [] index = 2 -> RustDiv(a, 100)
    [] OTHER -> 0

\* Regs::dst: the acc it leaves
RegsDst(a, index, value) ==
  LET digit == RustRem(value, 10) IN
  CASE index = 0 -> RustDiv(a, 10) * 10 + digit
    [] index = 1 -> RustDiv(a, 100) * 100 + (digit * 10) + RustRem(a, 10)
    [] index = 2 -> (digit * 100) + RustRem(a, 100)
    [] OTHER -> a

\* Expander::write with p0, p1, p2 connected: the pins it leaves
ExpanderWrite(pins, val) ==
  LET abs_val == Abs(val) IN
  [pins EXCEPT !["p2"] = IF abs_val >= 100 THEN PinHigh ELSE 0,
               !["p1"] = IF RustRem(abs_val, 100) >= 10 THEN PinHigh ELSE 0,
               !["p0"] = IF RustRem(abs_val, 10) >= 1 THEN PinHigh ELSE 0]

\* Expander::read with p0, p1, p2 connected
to_bit(atom) == IF atom >= PinThreshold THEN 1 ELSE 0
ExpanderRead(pins) ==
  100 * to_bit(pins["p2"]) + 10 * to_bit(pins["p1"]) + to_bit(pins["p0"])

\* memory.rs adjust_index
adjust_index_rem(index) == RustRem(index, MemSize)
adjust_index(index) ==
  LET modded == RustRem(index, MemSize) IN
  IF modded < 0 THEN modded + MemSize ELSE modded

\* AddrPin::read, AddrPin::write
AddrPinRead(m, i) == m.pointers[i]
AddrPinWrite(m, i, val) == [m EXCEPT !.pointers[i] = adjust_index(val)]

\* DataPin::read: the value returned and the memory it leaves
DataPinRead(m, i) == m.contents[m.pointers[i]]
DataPinAfterRead(m, i) == [m EXCEPT !.pointers[i] = adjust_index(m.pointers[i] + 1)]

\* DataPin::write
DataPinWrite(m, i, val) ==
  [m EXCEPT !.contents[m.pointers[i]] = val,
            !.pointers[i] = adjust_index(m.pointers[i] + 1)]

\* `source.read()` of XBus::read, dispatched on the source object: the value
\* returned, and the input queues and the memory it leaves
TSourceRead(s) ==
  CASE SourceType(s) = "Expander" -> ExpanderRead(pin)
    [] SourceType(s) = "AddrPin" -> AddrPinRead(mem, PinIndex(s))
    [] SourceType(s) = "DataPin" -> DataPinRead(mem, PinIndex(s))
    [] OTHER -> SourceValue(s)
QueueAfterRead(s) ==
  IF s \in SourceIds THEN [queue EXCEPT ![s] = SourceRest(s)] ELSE queue
MemAfterRead(s) ==
  IF SourceType(s) = "DataPin" THEN DataPinAfterRead(mem, PinIndex(s)) ELSE mem

\* `sinks[0].write(val)` of XBus::write, dispatched on the sink object: the
\* sink queues, the pins and the memory it leaves
SinkqAfterWrite(k, val) ==
  IF k \in SinkIds THEN [sinkq EXCEPT ![k] = SinkWrite(@, val)] ELSE sinkq
PinAfterWrite(k, val) ==
  IF k = "exp" THEN ExpanderWrite(pin, val) ELSE pin
MemAfterWrite(k, val) ==
  CASE k \in AddrPins -> AddrPinWrite(mem, PinIndex(k), val)
    [] k \in DataPins -> DataPinWrite(mem, PinIndex(k), val)
    [] OTHER -> mem

(* -------------------------------- XBus -------------------------------- *)

\* indices of the sources of bus b that report can_read()
ReadableSources(b) ==
  {i \in 1..Len(Sources(b)) : SourceCanRead(Sources(b)[i])}

\* XBus::read: `for source in xbus.sources.iter() { if source.can_read()`:
\* the first readable source in registration order
LastReadable(b) ==
  Sources(b)[CHOOSE i \in ReadableSources(b) : \A j \in ReadableSources(b) : i >= j]
FirstReadable(b) ==
  Sources(b)[CHOOSE i \in ReadableSources(b) : \A j \in ReadableSources(b) : i <= j]

\* XBus::can_read
can_read_sources_only(b) == ReadableSources(b) # {}
can_read(b) ==
  DOMAIN pending_writers[b] # {} \/ ReadableSources(b) # {}

\* XBus::is_read_pending, XBus::is_write_pending
is_read_pending(b, name) == name \in pending_readers[b]
is_write_pending(b, name) == name \in DOMAIN pending_writers[b]

\* HashMap::remove and HashMap::insert on pending_writers
MapRemove(m, key) == [k \in DOMAIN m \ {key} |-> m[k]]
MapInsert(m, key, v) == [k \in DOMAIN m \cup {key} |-> IF k = key THEN v ELSE m[k]]

\* XBus::read, first branch: `pending_writers.remove(key)`
TakeWriterKept(m, key) == m
TakeWriter(m, key) == MapRemove(m, key)

\* XBus::write, first branch: `pending_readers.remove(key)`
TakeReaderKept(s, key) == s
TakeReader(s, key) == s \ {key}

\* XBus::write, second branch: `xbus.sinks[0]`
LastSink(b) == Sinks(b)[Len(Sinks(b))]
FirstSink(b) == Sinks(b)[1]

\* XBus::write, first branch: `!xbus.pending_readers.is_empty()`
HasPendingReaderNever(b) == FALSE
HasPendingReader(b) == pending_readers[b] # {}

\* XBus::read, first branch: `!xbus.pending_writers.is_empty()`
HasPendingWriterAfterSources(b) ==
  DOMAIN pending_writers[b] # {} /\ ReadableSources(b) = {}
HasPendingWriter(b) == DOMAIN pending_writers[b] # {}

(* ------------------------- controller threads ------------------------- *)

\* the position after the current instruction; execute() is called again
\* after the last one (the loop of controller::start)
NextIp(c) == (ip[c] % Len(Body(c))) + 1

\* send_to_scheduler
SendToScheduler(c, token) == Append(chan, [name |-> c, token |-> token])

\* the value a write instruction passes to XBus::write (and a store to
\* AtomicI32::store)
WriteArgNoDat(c, ins) == IF ins.src = "const" THEN ins.val ELSE acc[c]
WriteArg(c, ins) ==
  CASE ins.src = "acc" -> acc[c]
    [] ins.src = "dat" -> dat[c]
    [] ins.src = "sum" -> acc[c] + dat[c]
    [] ins.src = "diff" -> acc[c] - dat[c]
    [] OTHER -> ins.val

\* controller c is parked with XBusSleep: its thread is blocked on its wakeup
\* channel and the scheduler has stored its XBusSleep token
SlxParked(c) ==
  /\ cstate[c] = "parked"
  /\ wake[c] = "none"
  /\ tok[c].kind = "XBusSleep"
  /\ c \in DOMAIN sleepers
  /\ sleepers[c] = tok[c]
  /\ \A i \in 1..Len(chan) : chan[i].name # c

\* history of a controller: `at` is the scheduler's time when the thread last
\* sent a sleep message (Scheduler::sleep); `seen` says that, since c has been
\* parked with XBusSleep, its bus has been readable while another controller
\* was parked with XBusSleep on the same bus
NoHist == [at |-> 0, seen |-> FALSE]
HistNext ==
  [c \in Ctrl |->
     [at |-> IF cstate[c] # "parked" /\ cstate'[c] = "parked" THEN time ELSE hist[c].at,
      seen |-> /\ SlxParked(c)'
               /\ \/ hist[c].seen
                  \/ (/\ can_read(tok[c].bus)
                      /\ \E d \in Ctrl \ {c} :
                           SlxParked(d) /\ tok[d].bus = tok[c].bus)']]

\* memory::ram(): contents [0; 14], pointers [0, 0]
NewRam ==
  [contents |-> [i \in 0..(MemSize - 1) |-> 0], pointers |-> [i \in {0, 1} |-> 0]]

\* FileRunner::verify before it has read a row.  `outs`: FileRunner.outputs,
\* the output columns of the header that name an output sink, in header
\* order; `vals`: the XBus input values of the current row; `adv`: advance()
\* has been called for the current row; `done`: verify has returned;
\* `base` (history): the length of each sink's queue when advance() was called
NewRow(header) ==
  [outs |-> header, vals |-> <<>>, adv |-> FALSE, done |-> FALSE,
   base |-> [k \in SinkIds |-> 0]]
NoRow == NewRow(<<>>)

\* the headers given to FileRunner::new: no output-sink column, or a column
\* for the sink the bodies write to
Headers == {<<>>, <<"snk">>}

\* the state after construction: Scheduler::new has returned and
\* controller::start has spawned every thread, each about to post Time(0)
Start(r, programs, headers) ==
  /\ cfg \in programs
  /\ time = 0
  /\ sleepers = [n \in {} |-> TimeTok(0)]
  /\ chan = <<>>
  /\ spc = "idle"
  /\ todo = {}
  /\ checked = "none"
  /\ run_count = 0
  /\ expected_count = 0
  /\ receive_count = 0
  /\ wake = [c \in Ctrl |-> "none"]
  /\ cstate = [c \in Ctrl |-> "post"]
  /\ ip = [c \in Ctrl |-> 0]
  /\ tok = [c \in Ctrl |-> TimeTok(0)]
  /\ acc = [c \in Ctrl |-> 0]
  /\ cell = [c \in Ctrl |-> 0]
  /\ pending_readers = [b \in Buses |-> {}]
  /\ pending_writers = [b \in Buses |-> [n \in {} |-> 0]]
  /\ queue = [s \in SourceIds |-> <<>>]
  /\ sinkq = [k \in SinkIds |-> <<>>]
  /\ pin = [p \in Pins |-> 0]
  /\ delivered = [c \in Ctrl |-> 0]
  /\ ev = NoEvent("Init")
  /\ run = r
  /\ inlog = <<>>
  /\ saved = NoSnapshot
  /\ hist = [c \in Ctrl |-> NoHist]
  /\ dat = [c \in Ctrl |-> 0]
  /\ mem = NewRam
  /\ lock = [b \in Buses |-> "none"]
  /\ row \in {NewRow(h) : h \in headers}

Init == Start(0, Configs, {<<>>})

\* Scheduler::sleep, first half, for a token made under a bus lock (and the
\* startup Time(0) of controller::start): send the message, then block on
\* wakeup_receiver.recv()
Post(c) ==
  /\ cstate[c] = "post"
  /\ chan' = SendToScheduler(c, tok[c])
  /\ cstate' = [cstate EXCEPT ![c] = "parked"]
  /\ ev' = Event("Post", c, tok[c].bus, 0, "none")
  /\ UNCHANGED <<cfg, run, saved, inlog, schedVars, busVars, wake, ip, tok, acc, pin, delivered>>
  /\ hist' = HistNext
  /\ UNCHANGED benchVars

\* Scheduler::sleep: `wakeup_receiver.recv()` returns once the scheduler has
\* sent on the wakeup channel
WokenAlways(c) == TRUE
Woken(c) == wake[c] # "none"

\* Scheduler::sleep, second half: recv() returns keep_going.  true: the
\* primitive returns Ok (a read returns the cell's value) and the body goes
\* on; false: Err is propagated and the loop of controller::start breaks.
keep_going_always(c) == TRUE
keep_going(c) == wake[c] = "true"
Resume(c) ==
  /\ cstate[c] = "parked"
  /\ Woken(c)
  /\ wake' = [wake EXCEPT ![c] = "none"]
  /\ IF keep_going(c)
       THEN /\ cstate' = [cstate EXCEPT ![c] = "run"]
            /\ ip' = [ip EXCEPT ![c] = NextIp(c)]
            /\ acc' = [acc EXCEPT ![c] = IF tok[c].kind = "XBusRead" THEN cell[c] ELSE @]
            /\ ev' = Event("Resume", c, tok[c].bus, IF tok[c].kind = "XBusRead" THEN cell[c] ELSE 0, tok[c].kind)
       ELSE /\ cstate' = [cstate EXCEPT ![c] = "done"]
            /\ ev' = Event("Stop", c, tok[c].bus, 0, tok[c].kind)
            /\ UNCHANGED <<ip, acc>>
  /\ UNCHANGED <<cfg, run, saved, inlog, schedVars, busVars, chan, tok, pin, delivered>>
  /\ hist' = HistNext
  /\ UNCHANGED benchVars

\* sleep(steps): Scheduler::sleep(SleepToken::Time(steps))
Sleep(c) ==
  /\ cstate[c] = "run"
  /\ \E ins \in Body(c)[ip[c]] :
       /\ ins.op = "slp"
       /\ tok' = [tok EXCEPT ![c] = TimeTok(ins.n)]
       /\ chan' = SendToScheduler(c, TimeTok(ins.n))
       /\ ev' = Event("Sleep", c, "none", ins.n, "none")
  /\ cstate' = [cstate EXCEPT ![c] = "parked"]
  /\ UNCHANGED <<cfg, run, saved, inlog, schedVars, busVars, wake, ip, acc, pin, delivered>>
  /\ hist' = HistNext
  /\ UNCHANGED benchVars

\* XBus::sleep: return at once when can_read(), else park with XBusSleep
\* (can_read() takes the bus lock and drops it when it returns)
XBusSleep(c) ==
  /\ cstate[c] = "run"
  /\ \E ins \in Body(c)[ip[c]] :
       /\ ins.op = "slx"
       /\ lock[ins.bus] = "none"
       /\ IF can_read(ins.bus)
            THEN /\ ip' = [ip EXCEPT ![c] = NextIp(c)]
                 /\ ev' = Event("SleepReturn", c, ins.bus, 0, "none")
                 /\ UNCHANGED <<tok, cstate>>
            ELSE /\ tok' = [tok EXCEPT ![c] = BusTok("XBusSleep", ins.bus)]
                 /\ cstate' = [cstate EXCEPT ![c] = "post"]
                 /\ ev' = Event("SleepPark", c, ins.bus, 0, "none")
                 /\ UNCHANGED ip
  /\ UNCHANGED <<cfg, run, saved, inlog, schedVars, busVars, chan, wake, acc, pin, delivered>>
  /\ hist' = HistNext
  /\ UNCHANGED benchVars

\* XBus::read, the part under the bus lock (`self.inner.lock()` waits until
\* the Mutex is free).  `exit` is where the thread is when the step ends in
\* the branch that registers a pending reader: "post" when the step runs to
\* the end of the block, where the guard is dropped, "unlock" when it stops
\* before the end of the block, the Mutex still held.
ReadUnderLock(c, exit) ==
  /\ cstate[c] = "run"
  /\ \E ins \in Body(c)[ip[c]] :
       /\ ins.op = "read"
       /\ lock[ins.bus] = "none"
       /\ LET b == ins.bus IN
          IF HasPendingWriter(b)
            THEN \E key \in DOMAIN pending_writers[b] :
                   /\ acc' = [acc EXCEPT ![c] = pending_writers[b][key]]
                   /\ pending_writers' = [pending_writers EXCEPT ![b] = TakeWriter(@, key)]
                   /\ delivered' = [delivered EXCEPT ![key] = @ + 1]
                   /\ ip' = [ip EXCEPT ![c] = NextIp(c)]
                   /\ ev' = Event("ReadFromWriter", c, b, pending_writers[b][key], key)
                   /\ UNCHANGED <<pending_readers, queue, cell, tok, cstate, mem, lock>>
            ELSE IF ReadableSources(b) # {}
              THEN LET s == FirstReadable(b) IN
                   /\ acc' = [acc EXCEPT ![c] = TSourceRead(s)]
                   /\ queue' = QueueAfterRead(s)
                   /\ mem' = MemAfterRead(s)
                   /\ ip' = [ip EXCEPT ![c] = NextIp(c)]
                   /\ ev' = Event("ReadFromSource", c, b, TSourceRead(s), s)
                   /\ UNCHANGED <<pending_readers, pending_writers, cell, tok, cstate, delivered, lock>>
              ELSE /\ pending_readers' = [pending_readers EXCEPT ![b] = @ \cup {c}]
                   /\ cell' = [cell EXCEPT ![c] = 0]
                   /\ tok' = [tok EXCEPT ![c] = BusTok("XBusRead", b)]
                   /\ cstate' = [cstate EXCEPT ![c] = exit]
                   /\ lock' = IF exit = "unlock" THEN [lock EXCEPT ![b] = c] ELSE lock
                   /\ ev' = Event("ReadPark", c, b, 0, "none")
                   /\ UNCHANGED <<pending_writers, queue, acc, ip, delivered, mem>>
  /\ UNCHANGED <<cfg, run, saved, inlog, schedVars, sinkq, chan, wake, pin, dat, row>>
  /\ hist' = HistNext

\* XBus::read up to the end of its block, as one step
XBusRead(c) == ReadUnderLock(c, "post")

\* XBus::write, the part under the bus lock; `exit` as in ReadUnderLock
WriteUnderLock(c, exit) ==
  /\ cstate[c] = "run"
  /\ \E ins \in Body(c)[ip[c]] :
       /\ ins.op = "write"
       /\ lock[ins.bus] = "none"
       /\ LET b == ins.bus
              v == WriteArg(c, ins) IN
          IF HasPendingReader(b)
            THEN \E key \in pending_readers[b] :
                   /\ pending_readers' = [pending_readers EXCEPT ![b] = TakeReader(@, key)]
                   /\ cell' = [cell EXCEPT ![key] = v]
                   /\ delivered' = [delivered EXCEPT ![c] = 1]
                   /\ ip' = [ip EXCEPT ![c] = NextIp(c)]
                   /\ ev' = Event("WriteToReader", c, b, v, key)
                   /\ UNCHANGED <<pending_writers, sinkq, tok, cstate, pin, mem, lock>>
            ELSE IF Sinks(b) # <<>>
              THEN /\ sinkq' = SinkqAfterWrite(FirstSink(b), v)
                   /\ pin' = PinAfterWrite(FirstSink(b), v)
                   /\ mem' = MemAfterWrite(FirstSink(b), v)
                   /\ delivered' = [delivered EXCEPT ![c] = 1]
                   /\ ip' = [ip EXCEPT ![c] = NextIp(c)]
                   /\ ev' = Event("WriteToSink", c, b, v, FirstSink(b))
                   /\ UNCHANGED <<pending_readers, pending_writers, cell, tok, cstate, lock>>
              ELSE /\ pending_writers' = [pending_writers EXCEPT ![b] = MapInsert(@, c, v)]
                   /\ delivered' = [delivered EXCEPT ![c] = 0]
                   /\ tok' = [tok EXCEPT ![c] = BusTok("XBusWrite", b)]
                   /\ cstate' = [cstate EXCEPT ![c] = exit]
                   /\ lock' = IF exit = "unlock" THEN [lock EXCEPT ![b] = c] ELSE lock
                   /\ ev' = Event("WritePark", c, b, v, "none")
                   /\ UNCHANGED <<pending_readers, sinkq, cell, ip, pin, mem>>
  /\ UNCHANGED <<cfg, run, saved, inlog, schedVars, queue, chan, wake, acc, dat, row>>
  /\ hist' = HistNext

\* XBus::write up to the end of its block, as one step
XBusWrite(c) == WriteUnderLock(c, "post")

\* the end of the block of XBus::read / XBus::write: the MutexGuard is dropped
\* ("Unlock the mutex before sleeping")
GuardKept(l, b) == l
GuardDropped(l, b) == [l EXCEPT ![b] = "none"]

\* XBus::read / XBus::write between registering in the pending map and
\* Scheduler::sleep: the end of the block
Unlock(c) ==
  /\ cstate[c] = "unlock"
  /\ lock' = GuardDropped(lock, tok[c].bus)
  /\ cstate' = [cstate EXCEPT ![c] = "post"]
  /\ ev' = Event("Unlock", c, tok[c].bus, 0, tok[c].kind)
  /\ UNCHANGED <<cfg, run, saved, inlog, schedVars, busVars, chan, wake, ip, tok, acc, pin,
                 delivered, dat, mem, row>>
  /\ hist' = HistNext

\* a store to a simple pin (AtomicI32::store, Relaxed)
PinStore(c) ==
  /\ cstate[c] = "run"
  /\ \E ins \in Body(c)[ip[c]] :
       /\ ins.op = "store"
       /\ pin' = [pin EXCEPT ![ins.pin] = WriteArg(c, ins)]
       /\ ev' = Event("PinStore", c, "none", WriteArg(c, ins), ins.pin)
  /\ ip' = [ip EXCEPT ![c] = NextIp(c)]
  /\ UNCHANGED <<cfg, run, saved, inlog, schedVars, busVars, chan, wake, cstate, tok, acc, delivered>>
  /\ hist' = HistNext
  /\ UNCHANGED benchVars

\* a step of the body on its own locals: acc = v, dat = v, dat = rd!(pin)
\* (AtomicI32::load, Relaxed), reg.dgt(index) or reg.dst(index, value)
RegOp(c) ==
  /\ cstate[c] = "run"
  /\ \E ins \in Body(c)[ip[c]] :
       /\ ins.op \in {"mov", "movd", "load", "dgt", "dst"}
       /\ acc' = [acc EXCEPT ![c] = CASE ins.op = "mov" -> ins.val
                                       [] ins.op = "dgt" -> RegsDgt(@, ins.n)
                                       [] ins.op = "dst" -> RegsDst(@, ins.n, WriteArg(c, ins))
                                       [] OTHER -> @]
       /\ dat' = [dat EXCEPT ![c] = CASE ins.op = "movd" -> ins.val
                                       [] ins.op = "load" -> pin[ins.pin]
                                       [] OTHER -> @]
       /\ ev' = Event("RegOp", c, "none", ins.val, ins.pin)
  /\ ip' = [ip EXCEPT ![c] = NextIp(c)]
  /\ UNCHANGED <<cfg, run, saved, inlog, schedVars, busVars, chan, wake, cstate, tok, pin,
                 delivered, mem, lock, row>>
  /\ hist' = HistNext

(* ------------------------------ Scheduler ----------------------------- *)

\* await_sleepers: `SleepToken::Time(t) => SleepToken::Time(self.time + t)`
RebaseNone(token) == token
RebaseLate(token) ==
  IF token.kind = "Time" THEN TimeTok(time + token.t + 1) ELSE token
Rebase(token) ==
  IF token.kind = "Time" THEN TimeTok(time + token.t) ELSE token

\* advance(): can_run of the entry of `name`
can_run_always(name) == TRUE
can_run_no_reader(name) ==
  LET token == sleepers[name] IN
  CASE token.kind = "Time" -> time >= token.t
    [] token.kind = "XBusSleep" -> can_read(token.bus)
    [] token.kind = "XBusRead" -> FALSE
    [] token.kind = "XBusWrite" -> ~is_write_pending(token.bus, name)
can_run(name) ==
  LET token == sleepers[name] IN
  CASE token.kind = "Time" -> time >= token.t
    [] token.kind = "XBusSleep" -> can_read(token.bus)
    [] token.kind = "XBusRead" -> ~is_read_pending(token.bus, name)
    [] token.kind = "XBusWrite" -> ~is_write_pending(token.bus, name)

\* advance(): blockers, computed on the registry `reg`
BlockersNone(reg) == {}
BlockersIfAllBlocked(reg) ==
  IF \A n \in DOMAIN reg : is_blocking(reg[n]) THEN DOMAIN reg ELSE {}
Blockers(reg) == {n \in DOMAIN reg : is_blocking(reg[n])}

\* advance(): `if self.time == 0 { self.await_sleepers(self.controller_count) }`:
\* how many startup posts the first advance() waits for
InitialExpectedNone(count) == 0
InitialExpected(count) == count

\* no controller thread can take a step any more, so none will post: the
\* recv_timeout of await_sleepers expires
NobodyWillPostIfAllParked ==
  \A c \in Ctrl :
    \/ cstate[c] = "done"
    \/ cstate[c] = "parked" /\ wake[c] = "none"
NobodyWillPost ==
  \A c \in Ctrl :
    \/ cstate[c] = "done"
    \/ cstate[c] = "parked" /\ wake[c] = "none"
    \/ cstate[c] = "run" /\ \A ins \in Body(c)[ip[c]] : ins.op = "spin"

\* advance(): `self.time += 1`
Tick(t) == t + 1

\* advance() is called: the first call waits for the startup posts, every
\* other call increments time and starts the first pass of the wake loop
AdvanceCall ==
  /\ spc = "idle"
  /\ time >= 0
  /\ IF time = 0 /\ InitialExpected(controller_count) > 0
       THEN /\ spc' = "await0"
            /\ expected_count' = InitialExpected(controller_count)
            /\ receive_count' = 0
            /\ UNCHANGED <<time, todo, run_count>>
       ELSE /\ time' = Tick(time)
            /\ run_count' = 0
            /\ todo' = DOMAIN sleepers
            /\ spc' = "iter"
            /\ UNCHANGED <<expected_count, receive_count>>
  /\ ev' = NoEvent("Advance")
  /\ UNCHANGED <<cfg, run, saved, inlog, sleepers, chan, checked, wake, cstate, ip, tok, acc, busVars, pin,
                 delivered>>
  /\ hist' = HistNext
  /\ UNCHANGED <<dat, mem, lock>>

\* the driver calls advance()
Advance ==
  /\ time < MaxTime
  /\ AdvanceCall
  /\ UNCHANGED row

\* await_sleepers: one iteration of its loop (one message received); the
\* last one returns to advance(), which increments time (first call) and
\* starts the next pass of the wake loop
Recv ==
  /\ spc \in {"await0", "await"}
  /\ receive_count < expected_count
  /\ chan # <<>>
  /\ LET msg == Head(chan)
         reg == MapInsert(sleepers, msg.name, Rebase(msg.token)) IN
     /\ sleepers' = reg
     /\ chan' = Tail(chan)
     /\ receive_count' = receive_count + 1
     /\ IF receive_count + 1 < expected_count
          THEN UNCHANGED <<spc, time, run_count, todo>>
          ELSE /\ time' = IF spc = "await0" THEN Tick(time) ELSE time
               /\ run_count' = 0
               /\ todo' = DOMAIN reg
               /\ spc' = "iter"
     /\ ev' = Event("Recv", msg.name, msg.token.bus, 0, msg.token.kind)
  /\ UNCHANGED <<cfg, run, saved, inlog, expected_count, checked, wake, cstate, ip, tok, acc, busVars, pin,
                 delivered>>
  /\ hist' = HistNext
  /\ UNCHANGED benchVars

\* await_sleepers: recv_timeout(500 ms).unwrap() panics
Timeout ==
  /\ spc \in {"await0", "await"}
  /\ receive_count < expected_count
  /\ chan = <<>>
  /\ NobodyWillPost
  /\ spc' = "timeout"
  /\ ev' = NoEvent("Timeout")
  /\ UNCHANGED <<cfg, run, saved, inlog, time, sleepers, chan, todo, checked, run_count, expected_count,
                 receive_count, wake, cstate, ip, tok, acc, busVars, pin, delivered>>
  /\ hist' = HistNext
  /\ UNCHANGED benchVars

\* advance(): one iteration of `for (name, (token, wakeup)) in self.sleepers.iter()`
\* (a HashMap: the entries come in any order), up to `if can_run`: the match
\* computes can_run (can_read, is_read_pending and is_write_pending take the
\* bus lock and release it on return).  An entry that cannot run ends the
\* iteration; one that can is remembered until the send.
WakeCheck ==
  /\ spc = "iter"
  /\ checked = "none"
  /\ \E name \in todo :
       /\ sleepers[name].kind # "Time" => lock[sleepers[name].bus] = "none"
       /\ todo' = todo \ {name}
       /\ IF can_run(name)
            THEN /\ checked' = name
                 /\ ev' = Event("Check", name, sleepers[name].bus, 1, sleepers[name].kind)
            ELSE /\ checked' = checked
                 /\ ev' = Event("Wake", name, sleepers[name].bus, 0, sleepers[name].kind)
  /\ UNCHANGED <<cfg, run, saved, inlog, time, sleepers, chan, spc, run_count, expected_count,
                 receive_count, wake, cstate, ip, tok, acc, busVars, pin, delivered>>
  /\ hist' = HistNext
  /\ UNCHANGED benchVars

\* advance(): the rest of the iteration, `wakeup.send(true).unwrap();
\* run_count += 1`, for the entry whose can_run was true; the controller
\* threads that are awake run between the match and the send
WakeSend ==
  /\ spc = "iter"
  /\ checked # "none"
  /\ wake' = [wake EXCEPT ![checked] = "true"]
  /\ run_count' = run_count + 1
  /\ checked' = "none"
  /\ ev' = Event("Wake", checked, sleepers[checked].bus, 1, sleepers[checked].kind)
  /\ UNCHANGED <<cfg, run, saved, inlog, time, sleepers, chan, spc, todo, expected_count,
                 receive_count, cstate, ip, tok, acc, busVars, pin, delivered>>
  /\ hist' = HistNext
  /\ UNCHANGED benchVars

\* advance(): the for loop is over.  run_count > 0: await_sleepers(run_count);
\* run_count = 0: the while loop ends, and advance() panics if there are
\* blockers and returns otherwise
loop_once(count) == FALSE
loop_again(count) == count > 0
PassEnd ==
  /\ spc = "iter"
  /\ todo = {}
  /\ checked = "none"
  /\ IF loop_again(run_count)
       THEN /\ spc' = "await"
            /\ expected_count' = run_count
            /\ receive_count' = 0
       ELSE /\ spc' = IF Blockers(sleepers) # {} THEN "deadlock" ELSE "idle"
            /\ UNCHANGED <<expected_count, receive_count>>
  /\ ev' = NoEvent("PassEnd")
  /\ UNCHANGED <<cfg, run, saved, inlog, time, sleepers, chan, todo, checked, run_count, wake, cstate, ip, tok,
                 acc, busVars, pin, delivered>>
  /\ hist' = HistNext
  /\ UNCHANGED benchVars

\* Scheduler::end: `wakeup.send(false)` for every entry of sleepers
EndWake(c) == IF c \in DOMAIN sleepers THEN "false" ELSE wake[c]

\* Scheduler::end: time = -1 and false to every sleeper; it returns at once
EndCall ==
  /\ time' = EndTime
  /\ wake' = [c \in Ctrl |-> EndWake(c)]
  /\ spc' = "ended"
  /\ ev' = NoEvent("End")
  /\ UNCHANGED <<cfg, run, saved, inlog, sleepers, chan, todo, checked, run_count, expected_count, receive_count,
                 cstate, ip, tok, acc, busVars, pin, delivered>>
  /\ hist' = HistNext
  /\ UNCHANGED benchVars

\* the driver calls end(), between two advance() calls
End ==
  /\ spc = "idle"
  /\ EndCall

\* InputSource::inject, called by the driver between two advance() calls
Inject ==
  /\ spc = "idle"
  /\ \E s \in SourcesInUse, v \in InVals :
       /\ Len(queue[s]) < MaxQueue
       /\ queue' = [queue EXCEPT ![s] = Append(@, v)]
       /\ inlog' = IF run = 0 THEN inlog ELSE Append(inlog, <<time, s, v>>)
       /\ ev' = Event("Inject", "none", "none", v, s)
  /\ UNCHANGED <<cfg, run, saved, schedVars, chan, wake, cstate, ip, tok, acc, cell,
                 pending_readers, pending_writers, sinkq, pin, delivered>>
  /\ hist' = HistNext
  /\ UNCHANGED benchVars

Next ==
  \/ Advance
  \/ Recv
  \/ Timeout
  \/ WakeCheck
  \/ WakeSend
  \/ PassEnd
  \/ End
  \/ Inject
  \/ \E c \in Ctrl : Post(c)
  \/ \E c \in Ctrl : Resume(c)
  \/ \E c \in Ctrl : Sleep(c)
  \/ \E c \in Ctrl : XBusSleep(c)
  \/ \E c \in Ctrl : XBusRead(c)
  \/ \E c \in Ctrl : XBusWrite(c)
  \/ \E c \in Ctrl : PinStore(c)

Spec == Init /\ [][Next]_vars

(* ------------------------------ two runs ------------------------------ *)

\* The same program is run a second time from its constructed state: the
\* first run is stopped after an advance() has returned, what the driver
\* injected and observed is kept in `saved`, and every object is rebuilt.
Restart ==
  /\ run = 1
  /\ spc = "idle"
  /\ time >= 1
  /\ run' = 2
  /\ saved' = Snapshot(time, inlog, sinkq, pin)
  /\ inlog' = <<>>
  /\ cfg' = cfg
  /\ time' = 0
  /\ sleepers' = [n \in {} |-> TimeTok(0)]
  /\ chan' = <<>>
  /\ spc' = "idle"
  /\ todo' = {}
  /\ checked' = "none"
  /\ run_count' = 0
  /\ expected_count' = 0
  /\ receive_count' = 0
  /\ wake' = [c \in Ctrl |-> "none"]
  /\ cstate' = [c \in Ctrl |-> "post"]
  /\ ip' = [c \in Ctrl |-> 0]
  /\ tok' = [c \in Ctrl |-> TimeTok(0)]
  /\ acc' = [c \in Ctrl |-> 0]
  /\ cell' = [c \in Ctrl |-> 0]
  /\ pending_readers' = [b \in Buses |-> {}]
  /\ pending_writers' = [b \in Buses |-> [n \in {} |-> 0]]
  /\ queue' = [s \in SourceIds |-> <<>>]
  /\ sinkq' = [k \in SinkIds |-> <<>>]
  /\ pin' = [p \in Pins |-> 0]
  /\ delivered' = [c \in Ctrl |-> 0]
  /\ ev' = NoEvent("Restart")
  /\ hist' = [c \in Ctrl |-> NoHist]
  /\ dat' = [c \in Ctrl |-> 0]
  /\ mem' = NewRam
  /\ lock' = [b \in Buses |-> "none"]
  /\ row' = NoRow

\* the programs that are run twice
TwinConfigs == {"race", "doubler", "spin"}

TwinInit == Start(1, TwinConfigs, {<<>>})

TwinNext == Next \/ Restart

TwinSpec == TwinInit /\ [][TwinNext]_vars

(* ------------------------- FileRunner::verify ------------------------- *)

\* The programs of BenchConfigs driven as FileRunner::verify drives a
\* scheduler: for each data row it sets the inputs, calls advance() and reads
\* the outputs; the caller calls end() afterwards.  In this specification a
\* bus operation that registers a pending entry takes two steps, the second
\* being the unlocking of the bus.

\* verify, inputs of a row: InputBus::XBus, `source.inject(v)`
RowInject ==
  /\ spc = "idle"
  /\ ~row.done
  /\ ~row.adv
  /\ \E s \in SourcesInUse, v \in InVals :
       /\ Len(queue[s]) < MaxBurst
       /\ queue' = [queue EXCEPT ![s] = Append(@, v)]
       /\ row' = [row EXCEPT !.vals = Append(@, <<s, v>>)]
       /\ ev' = Event("Inject", "none", "none", v, s)
  /\ UNCHANGED <<cfg, run, saved, inlog, schedVars, chan, wake, cstate, ip, tok, acc, cell,
                 pending_readers, pending_writers, sinkq, pin, delivered, dat, mem, lock>>
  /\ hist' = HistNext

\* verify, inputs of a row: InputBus::Simple, `atomic.store(v)`
RowSetPin ==
  /\ spc = "idle"
  /\ ~row.done
  /\ ~row.adv
  /\ row.vals = <<>>
  /\ \E p \in InputPinsInUse, v \in PinVals :
       /\ pin[p] # v
       /\ pin' = [pin EXCEPT ![p] = v]
       /\ ev' = Event("SetPin", "none", "none", v, p)
  /\ UNCHANGED <<cfg, run, saved, inlog, schedVars, chan, wake, cstate, ip, tok, acc, busVars,
                 delivered, benchVars>>
  /\ hist' = HistNext

\* verify: `scheduler.advance()`
RowAdvance ==
  /\ ~row.done
  /\ ~row.adv
  /\ time < MaxRows
  /\ \A k \in SinkIds : Len(sinkq[k]) < MaxHeld
  /\ AdvanceCall
  /\ row' = [row EXCEPT !.adv = TRUE, !.base = [k \in SinkIds |-> Len(sinkq[k])]]

\* verify, outputs of a row: the loop over self.outputs has called
\* `sink.queue_into(&mut actual)` on the sinks of the first n columns
DrainFirst(header, n) ==
  [k \in SinkIds |->
     IF \E i \in 1..n : header[i] = k THEN QueueInto(sinkq[k]) ELSE sinkq[k]]

\* verify, outputs of a row: every column matches (for OutputBus::XBus,
\* `sink.queue_into(&mut actual)` and the comparison); then the next row is
\* read
RowOutputs ==
  /\ spc = "idle"
  /\ ~row.done
  /\ row.adv
  /\ sinkq' = DrainFirst(row.outs, Len(row.outs))
  /\ row' = [row EXCEPT !.vals = <<>>, !.adv = FALSE]
  /\ ev' = NoEvent("RowOutputs")
  /\ UNCHANGED <<cfg, run, saved, inlog, schedVars, chan, wake, cstate, ip, tok, acc, cell,
                 pending_readers, pending_writers, queue, pin, delivered, dat, mem, lock>>
  /\ hist' = HistNext

\* verify returns Err: while it sets the inputs of a row (a value that does
\* not parse, an unknown name), or at an output column that does not match,
\* the sinks of the columns before it and its own sink emptied, the sinks of
\* the later columns left as they are
RowError ==
  /\ spc = "idle"
  /\ ~row.done
  /\ \E n \in 0..(IF row.adv THEN Len(row.outs) ELSE 0) :
       sinkq' = DrainFirst(row.outs, n)
  /\ row' = [row EXCEPT !.adv = FALSE, !.done = TRUE]
  /\ ev' = NoEvent("RowError")
  /\ UNCHANGED <<cfg, run, saved, inlog, schedVars, chan, wake, cstate, ip, tok, acc, cell,
                 pending_readers, pending_writers, queue, pin, delivered, dat, mem, lock>>
  /\ hist' = HistNext

\* a driver that catches the panic of a reported deadlock calls end()
EndCaught ==
  /\ spc = "deadlock"
  /\ EndCall

\* XBus::read and XBus::write with the unlocking as a step of its own
XBusReadLocked(c) == ReadUnderLock(c, "unlock")
XBusWriteLocked(c) == WriteUnderLock(c, "unlock")

BenchInit == Start(0, BenchConfigs, Headers)

BenchNext ==
  \/ RowInject
  \/ RowSetPin
  \/ RowAdvance
  \/ RowOutputs
  \/ RowError
  \/ Recv
  \/ Timeout
  \/ WakeCheck
  \/ WakeSend
  \/ PassEnd
  \/ End
  \/ EndCaught
  \/ \E c \in Ctrl : Post(c)
  \/ \E c \in Ctrl : Resume(c)
  \/ \E c \in Ctrl : Sleep(c)
  \/ \E c \in Ctrl : XBusSleep(c)
  \/ \E c \in Ctrl : XBusReadLocked(c)
  \/ \E c \in Ctrl : XBusWriteLocked(c)
  \/ \E c \in Ctrl : Unlock(c)
  \/ \E c \in Ctrl : PinStore(c)
  \/ \E c \in Ctrl : RegOp(c)

BenchSpec == BenchInit /\ [][BenchNext]_vars

(* ------------------------------ fairness ------------------------------ *)

AllNames == {"a", "b", "c"}

\* any step of the thread of controller c
CtrlStep(c) ==
  /\ c \in Ctrl
  /\ \/ Post(c) \/ Resume(c) \/ Sleep(c) \/ XBusSleep(c)
     \/ XBusRead(c) \/ XBusWrite(c) \/ PinStore(c)

\* The driver thread, once inside advance(), keeps running, and so does every
\* controller thread that can take a step (OS threads).  Nothing obliges the
\* driver to call advance(), inject() or end().
FairSpec ==
  /\ Spec
  /\ WF_vars(Recv) /\ WF_vars(Timeout) /\ WF_vars(WakeCheck) /\ WF_vars(WakeSend) /\ WF_vars(PassEnd)
  /\ \A c \in AllNames : WF_vars(CtrlStep(c))

(* ------------------------------- claims ------------------------------- *)

\* advance() has returned normally at least once and the driver has not
\* called anything since that changes the scheduler
Returned == spc = "idle" /\ time >= 1

\* the driver is inside advance()
InAdvance == spc \in {"await0", "await", "iter"}

\* C1: whenever advance() has returned normally, the registry holds exactly
\* one entry per controller, every controller is parked on its wakeup channel
\* with its token posted and received (nothing in flight, no wakeup pending);
\* and until the next advance() no step changes anything a controller body
\* owns or a bus holds (no bus operation, no pin write).
C1_AllParkedBetweenAdvances ==
  /\ [](Returned =>
          /\ DOMAIN sleepers = Ctrl
          /\ Cardinality(DOMAIN sleepers) = controller_count
          /\ chan = <<>>
          /\ \A c \in Ctrl : cstate[c] = "parked" /\ wake[c] = "none")
  /\ [][Returned /\ spc' = "idle" =>
          UNCHANGED <<cstate, ip, tok, acc, cell, pin, pending_readers,
                      pending_writers, sinkq, chan, sleepers>>]_vars

\* C1 witness: advance() has returned twice with two controllers, one of
\* which went through a bus rendezvous
C1_Witness ==
  /\ cfg = "rendez" /\ Returned /\ time = 2
  /\ Len(sinkq["snk"]) >= 1
  /\ DOMAIN sleepers = {"a", "b"}

\* C2: after every advance() that returns normally, every token of the
\* registry is Time(t) or XBusSleep(bus), never XBusRead or XBusWrite.
C2_NoBlockingTokenOnReturn ==
  Returned => \A n \in DOMAIN sleepers : sleepers[n].kind \in {"Time", "XBusSleep"}

\* C2 witness: advance() has returned with one controller parked on XBusSleep
\* and the others on Time
C2_Witness ==
  /\ cfg = "race" /\ Returned
  /\ sleepers["c"].kind = "XBusSleep"
  /\ sleepers["a"].kind = "Time"

\* C3: when a pass of the wake loop has woken nobody and some registry entry
\* holds XBusRead or XBusWrite, advance() panics (deadlock) instead of
\* returning; two controllers that each read a bus with no writer and no
\* source never see the first advance() return: it reaches the deadlock
\* panic, with both of them reported as blocked.
C3_DeadlockDetected ==
  /\ [][(spc = "iter" /\ todo = {} /\ run_count = 0 /\ ev'.kind = "PassEnd"
           /\ \E n \in DOMAIN sleepers : sleepers[n].kind \in {"XBusRead", "XBusWrite"})
          => spc' = "deadlock"]_vars
  /\ [](cfg = "deadlock2" /\ spc = "idle" => time = 0)
  /\ [](cfg = "deadlock2" /\ spc = "deadlock" =>
          /\ time = 1
          /\ {n \in DOMAIN sleepers : sleepers[n].kind = "XBusRead"} = {"a", "b"})
  /\ [](cfg = "deadlock2" /\ InAdvance => <>(spc = "deadlock"))

\* C3 witness: the first advance() of the two readers has panicked
C3_Witness ==
  /\ cfg = "deadlock2" /\ spc = "deadlock" /\ time = 1
  /\ "a" \in pending_readers["x"]
  /\ sleepers["b"].kind = "XBusRead"

\* no body of this run loops without ever parking
NoSpin ==
  \A c \in Ctrl : \A i \in 1..Len(Body(c)) : \A ins \in Body(c)[i] : ins.op # "spin"

\* each body reaches a sleep or a bus operation on each iteration
ReachesSleepOrBusOp ==
  /\ NoSpin
  /\ \A c \in Ctrl : \E i \in 1..Len(Body(c)) :
       \A ins \in Body(c)[i] : ins.op \in {"slp", "slx", "read", "write"}

\* each body executes sleep(n) with n >= 1 on each iteration
SleepsEachIteration ==
  /\ NoSpin
  /\ \A c \in Ctrl : \E i \in 1..Len(Body(c)) :
       \A ins \in Body(c)[i] : ins.op = "slp" /\ ins.n >= 1

\* C4 as stated: with bodies that reach a sleep or bus operation on each
\* iteration, every advance() terminates: the wake loop reaches a pass that
\* wakes nobody, and advance() returns or reports the deadlock.
C4_AdvanceTerminates ==
  [](ReachesSleepOrBusOp /\ InAdvance => <>(spc \in {"idle", "deadlock"}))

\* C4 amended: with bodies that execute sleep(n), n >= 1, on each iteration,
\* every advance() terminates: the wake loop reaches a pass that wakes nobody,
\* and advance() returns or reports the deadlock.
C4_AdvanceTerminatesWhenBodiesSleep ==
  [](SleepsEachIteration /\ InAdvance => <>(spc \in {"idle", "deadlock"}))

\* C4 witness: a second advance() has returned after a rendezvous (several
\* passes of the wake loop), with bodies that sleep on each iteration
C4_Witness ==
  /\ SleepsEachIteration /\ cfg = "rendez"
  /\ Returned /\ time = 2
  /\ Len(sinkq["snk"]) = 2

IsReadEv(e) == e.kind \in {"ReadFromWriter", "ReadFromSource", "ReadPark"}
IsWriteEv(e) == e.kind \in {"WriteToReader", "WriteToSink", "WritePark"}

\* C5: a write(v) on a bus with a pending reader removes exactly one entry
\* of pending_readers, stores v in that reader's cell, leaves the other
\* pending readers, the pending writers and the sinks as they were, and
\* returns without posting a token; the removed reader's cell keeps v until
\* the reader is resumed, and its read() then returns v.
C5_WriteToPendingReader ==
  /\ [][IsWriteEv(ev') /\ pending_readers[ev'.bus] # {} =>
          \E r \in pending_readers[ev'.bus] :
             /\ pending_readers' = [pending_readers EXCEPT ![ev'.bus] = @ \ {r}]
             /\ cell' = [cell EXCEPT ![r] = ev'.val]
             /\ sinkq' = sinkq
             /\ pending_writers' = pending_writers
             /\ chan' = chan
             /\ tok' = tok
             /\ cstate'[ev'.c] = "run"]_vars
  /\ [][\A r \in Ctrl :
          (/\ cstate[r] \in {"post", "parked"}
           /\ tok[r].kind = "XBusRead"
           /\ r \notin pending_readers[tok[r].bus])
          => /\ cell'[r] = cell[r]
             /\ cstate'[r] = "run" => acc'[r] = cell[r]]_vars

\* C5 witness: a write has just been delivered to one of two pending readers
C5_Witness ==
  /\ ev.kind = "WriteToReader"
  /\ cell[ev.peer] = ev.val
  /\ pending_readers[ev.bus] # {}

\* C6: a read() on a bus with a pending writer removes exactly one entry of
\* pending_writers and returns its value without posting a token, and reads
\* no source, readable or not.
C6_ReadFromPendingWriter ==
  [][IsReadEv(ev') /\ DOMAIN pending_writers[ev'.bus] # {} =>
       \E key \in DOMAIN pending_writers[ev'.bus] :
          /\ pending_writers' =
               [pending_writers EXCEPT ![ev'.bus] = [k \in DOMAIN @ \ {key} |-> @[k]]]
          /\ acc'[ev'.c] = pending_writers[ev'.bus][key]
          /\ queue' = queue
          /\ pending_readers' = pending_readers
          /\ chan' = chan
          /\ tok' = tok
          /\ cstate'[ev'.c] = "run"]_vars

\* C6 witness: a read has just taken a pending writer's value on the bus of
\* the blocking input source while that source was readable
C6_Witness ==
  /\ ev.kind = "ReadFromWriter"
  /\ ev.bus = "in"
  /\ queue["bsrc"] # <<>>
  /\ acc[ev.c] = ev.val

\* C7: up to end(), the value of a write is never handed to more than one
\* recipient, a value still in pending_writers has been handed to nobody,
\* and when write() returns Ok (at once, or when its parked caller is resumed
\* with true) the value has been handed to exactly one: one reader's cell,
\* one reader's return value or one sink.
C7_DeliveredExactlyOnce ==
  /\ [](\A c \in Ctrl :
          /\ delivered[c] <= 1
          /\ \A b \in Buses : c \in DOMAIN pending_writers[b] => delivered[c] = 0)
  /\ [][ev'.kind = "Resume" /\ ev'.peer = "XBusWrite" => delivered[ev'.c] = 1]_vars
  /\ [][ev'.kind \in {"WriteToReader", "WriteToSink"} =>
          /\ delivered'[ev'.c] = 1
          /\ \/ /\ sinkq' = sinkq
                /\ \E r \in Ctrl : cell' = [cell EXCEPT ![r] = ev'.val]
             \/ /\ cell' = cell
                /\ \E k \in SinkIds : sinkq' = [sinkq EXCEPT ![k] = Append(@, ev'.val)]]_vars

\* C7 witness: a parked writer has just been resumed with true, its value
\* taken by one reader
C7_Witness ==
  /\ ev.kind = "Resume" /\ ev.peer = "XBusWrite"
  /\ delivered[ev.c] = 1
  /\ cstate[ev.c] = "run"

\* C8: a read() that finds no pending writer and no readable source puts its
\* caller in pending_readers and posts XBusRead(bus); a write(v) that finds no
\* pending reader and no sink puts (caller, v) in pending_writers and posts
\* XBusWrite(bus); the scheduler sends true to a caller parked on XBusRead /
\* XBusWrite only when its entry is gone from the pending map, so that it is
\* gone when the caller resumes.
C8_ParkedUntilCounterpart ==
  /\ [][(/\ IsReadEv(ev')
         /\ DOMAIN pending_writers[ev'.bus] = {}
         /\ \A i \in 1..Len(Sources(ev'.bus)) : ~SourceCanRead(Sources(ev'.bus)[i]))
        => /\ pending_readers' = [pending_readers EXCEPT ![ev'.bus] = @ \cup {ev'.c}]
           /\ tok'[ev'.c] = [kind |-> "XBusRead", t |-> 0, bus |-> ev'.bus]
           /\ cstate'[ev'.c] = "post"]_vars
  /\ [][(/\ IsWriteEv(ev')
         /\ pending_readers[ev'.bus] = {}
         /\ Sinks(ev'.bus) = <<>>)
        => /\ DOMAIN pending_writers'[ev'.bus] = DOMAIN pending_writers[ev'.bus] \cup {ev'.c}
           /\ pending_writers'[ev'.bus][ev'.c] = ev'.val
           /\ tok'[ev'.c] = [kind |-> "XBusWrite", t |-> 0, bus |-> ev'.bus]
           /\ cstate'[ev'.c] = "post"]_vars
  /\ [][ev'.kind = "Post" =>
          /\ chan' = Append(chan, [name |-> ev'.c, token |-> tok[ev'.c]])
          /\ cstate'[ev'.c] = "parked"]_vars
  /\ [][\A c \in Ctrl : wake[c] # "true" /\ wake'[c] = "true" =>
          /\ sleepers[c].kind = "XBusRead" => c \notin pending_readers[sleepers[c].bus]
          /\ sleepers[c].kind = "XBusWrite" => c \notin DOMAIN pending_writers[sleepers[c].bus]]_vars
  /\ [][ev'.kind = "Resume" =>
          /\ ev'.peer = "XBusRead" => ev'.c \notin pending_readers[ev'.bus]
          /\ ev'.peer = "XBusWrite" => ev'.c \notin DOMAIN pending_writers[ev'.bus]]_vars

\* C8 witness: a reader that parked on XBusRead has just been resumed with
\* true and returns a value a writer stored
C8_Witness ==
  /\ ev.kind = "Resume" /\ ev.peer = "XBusRead"
  /\ ev.val \in {1, 2}
  /\ acc[ev.c] = ev.val

\* C9: on every bus, no controller name is a key of pending_readers and of
\* pending_writers at the same time.  (Each map holds a name at most once:
\* they are HashMaps keyed by name, here a set and a function.)  The code
\* keeps the two maps of a bus from being nonempty together, which is what
\* keeps every name out of one of them.
C9_PendingMapsDisjoint ==
  \A b \in Buses :
    /\ pending_readers[b] \cap DOMAIN pending_writers[b] = {}
    /\ pending_readers[b] = {} \/ DOMAIN pending_writers[b] = {}

\* C9 witness: a reader is pending on one bus while a writer is pending on
\* another
C9_Witness ==
  \E b1, b2 \in Buses :
    /\ pending_readers[b1] # {}
    /\ DOMAIN pending_writers[b2] # {}

\* every instruction of every body is fixed: the program text leaves no choice
FixedBodies ==
  \A c \in Ctrl : \A i \in 1..Len(Body(c)) : Cardinality(Body(c)[i]) = 1

\* C10: two runs of one program (same bodies, same wiring) that are given the
\* same injections before each advance() show the same sink contents and the
\* same pin values after the same number of advance() calls, whatever the
\* thread interleaving and whichever pending entry a bus picks.
C10_Determinism ==
  (/\ FixedBodies
   /\ run = 2
   /\ Returned
   /\ time = saved.t
   /\ inlog = saved.inlog)
  => /\ sinkq = saved.sink
     /\ pin = saved.pin

\* C11: when advance() returns, no controller is still parked with XBusSleep
\* on a bus that has been readable while it and another controller were
\* parked with XBusSleep on it: each of several controllers sleeping on a bus
\* that became readable was woken during that advance(), whoever consumed
\* the value.
C11_SlxWakesAll ==
  [][spc = "iter" /\ spc' = "idle" => \A c \in Ctrl : ~hist[c].seen]_vars

\* C12: a sleep(n), n >= 1, sent while the scheduler's time is T is resumed
\* inside an advance() and with time = T + n; and an advance() never returns
\* at a time >= T + n with the caller still parked.
C12_SleepResumesAtPostPlusN ==
  /\ [][(/\ ev'.kind = "Resume"
         /\ tok[ev'.c].kind = "Time"
         /\ tok[ev'.c].t >= 1)
        => /\ time = hist[ev'.c].at + tok[ev'.c].t
           /\ InAdvance]_vars
  /\ [](Returned =>
          \A c \in Ctrl :
             (cstate[c] = "parked" /\ tok[c].kind = "Time" /\ tok[c].t >= 1)
             => time < hist[c].at + tok[c].t)

\* C12 witness: a sleep(1) sent at time 1 has just been resumed, at time 2
C12_Witness ==
  /\ ev.kind = "Resume" /\ ev.peer = "Time"
  /\ tok[ev.c].t = 1
  /\ hist[ev.c].at = 1
  /\ time = 2

\* C13: a sleep(0) called by a body while the scheduler's time is T is resumed
\* with time = T + 1, in the next advance(), not in the advance() it was
\* called in.
C13_SleepZeroWaitsForNextAdvance ==
  [][(/\ ev'.kind = "Resume"
      /\ tok[ev'.c].kind = "Time"
      /\ tok[ev'.c].t = 0
      /\ ip[ev'.c] >= 1)
     => time = hist[ev'.c].at + 1]_vars

\* C14: end() sends false to every controller of the run, whatever its token
\* and whether or not advance() has been called, and every controller thread
\* then terminates.
C14_EndStopsEveryController ==
  /\ [][ev'.kind = "End" => \A c \in Ctrl : wake'[c] = "false"]_vars
  /\ [](spc = "ended" => <>(\A c \in Ctrl : cstate[c] = "done"))

\* C15: end() returns only after every controller thread has terminated: when
\* end() has returned, no thread is still blocked or running.
C15_EndJoinsWorkers ==
  spc = "ended" => \A c \in Ctrl : cstate[c] = "done"

\* what Scheduler::end does instead: it sends false to every registered
\* controller and returns without changing any thread's state; the threads it
\* reached terminate by themselves afterwards.
C15_EndReturnsWithoutJoining ==
  /\ [][ev'.kind = "End" =>
          /\ cstate' = cstate
          /\ \A c \in DOMAIN sleepers : wake'[c] = "false"]_vars
  /\ [](spc = "ended" /\ DOMAIN sleepers = Ctrl =>
          <>(\A c \in Ctrl : cstate[c] = "done"))

\* end() has returned after an advance(), one thread has terminated and
\* another is still blocked with false waiting in its channel
C15_Witness ==
  /\ spc = "ended"
  /\ DOMAIN sleepers = Ctrl
  /\ \E c \in Ctrl : cstate[c] = "parked" /\ wake[c] = "false"
  /\ \E c \in Ctrl : cstate[c] = "done"

\* C16: as long as time is 0 (before the first advance() and while it waits
\* for the startup posts) no controller has executed a step of its body: each
\* is about to post or has posted Time(0) and nothing else, no bus and no pin
\* has been touched, and the only step a controller thread takes is that post.
C16_NoBodyStepBeforeFirstAdvance ==
  /\ [](time = 0 =>
          /\ \A c \in Ctrl :
               /\ ip[c] = 0
               /\ cstate[c] \in {"post", "parked"}
               /\ tok[c] = [kind |-> "Time", t |-> 0, bus |-> "none"]
               /\ acc[c] = 0
          /\ \A b \in Buses : pending_readers[b] = {} /\ DOMAIN pending_writers[b] = {}
          /\ \A k \in SinkIds : sinkq[k] = <<>>
          /\ \A p \in Pins : pin[p] = 0)
  /\ [][(time = 0 /\ ev'.c \in Ctrl /\ ev'.kind # "Recv") =>
          /\ ev'.kind = "Post"
          /\ chan' = Append(chan, [name |-> ev'.c,
                                   token |-> [kind |-> "Time", t |-> 0, bus |-> "none"]])]_vars

\* C16 witness: the first advance() is waiting, one of three controllers has
\* posted its startup Time(0) and been received, another has not posted yet
C16_Witness ==
  /\ time = 0 /\ spc = "await0"
  /\ controller_count = 3
  /\ receive_count = 1
  /\ \E c \in Ctrl : cstate[c] = "post"

\* C17: when construction has returned (time 0, no advance() called yet) the
\* registry holds one entry for each of the N controllers and every worker is
\* parked on its startup sleep.
C17_ConstructionRegistersAll ==
  (time = 0 /\ spc = "idle") =>
     /\ DOMAIN sleepers = Ctrl
     /\ \A c \in Ctrl : cstate[c] = "parked"

\* what Scheduler::new and the first advance() do instead: after construction
\* the registry is empty, and it is the first advance() that blocks until all
\* N controllers have registered: when it increments time to 1 the registry
\* holds the startup Time(0) of each of the N controllers, every worker is
\* parked and no message is in flight.
C17_FirstAdvanceRegistersAll ==
  /\ [](time = 0 /\ spc = "idle" => DOMAIN sleepers = {})
  /\ [][time = 0 /\ time' = 1 =>
          /\ DOMAIN sleepers' = Ctrl
          /\ Cardinality(DOMAIN sleepers') = controller_count
          /\ chan' = <<>>
          /\ \A c \in Ctrl :
               /\ sleepers'[c] = [kind |-> "Time", t |-> 0, bus |-> "none"]
               /\ cstate'[c] = "parked"
               /\ wake'[c] = "none"]_vars

\* construction has returned and no advance() has been called: the registry
\* is empty, one of three controllers has posted its startup Time(0), which
\* nobody has received, and another has not posted yet
C17_Witness ==
  /\ time = 0 /\ spc = "idle"
  /\ controller_count = 3
  /\ DOMAIN sleepers = {}
  /\ \E c \in Ctrl : cstate[c] = "parked" /\ \E i \in 1..Len(chan) : chan[i].name = c
  /\ \E c \in Ctrl : cstate[c] = "post"

\* C18: a write(v) on a bus with no pending reader and at least one sink
\* appends v to the queue of the first-registered sink and to no other,
\* leaves both pending maps and every reader cell as they were, posts nothing
\* and returns; no writer is ever pending on a bus that has a sink.
C18_WriteToFirstSink ==
  /\ [][(/\ IsWriteEv(ev')
         /\ pending_readers[ev'.bus] = {}
         /\ Len(Sinks(ev'.bus)) >= 1)
        => /\ sinkq' = [sinkq EXCEPT ![Sinks(ev'.bus)[1]] = Append(@, ev'.val)]
           /\ pending_writers' = pending_writers
           /\ pending_readers' = pending_readers
           /\ cell' = cell
           /\ chan' = chan
           /\ tok' = tok
           /\ cstate'[ev'.c] = "run"]_vars
  /\ [](\A b \in Buses : Len(Sinks(b)) >= 1 => DOMAIN pending_writers[b] = {})
  /\ [](\A c \in Ctrl : (cstate[c] # "run" /\ tok[c].kind = "XBusWrite")
                          => Sinks(tok[c].bus) = <<>>)

\* C18 witness: a write on the bus with two sinks has just returned, its value
\* in the first sink's queue and the second sink's queue empty
C18_Witness ==
  /\ ev.kind = "WriteToSink"
  /\ ev.bus = "out"
  /\ sinkq["snk"] # <<>>
  /\ sinkq["snk"][Len(sinkq["snk"])] = ev.val
  /\ sinkq["snk2"] = <<>>
  /\ cstate[ev.c] = "run"

\* C19: a read() on a bus with no pending writer and some readable source
\* pops one value from the first source, in registration order, whose
\* can_read() is true (-999 from an empty nonblocking one), returns it, posts
\* nothing, and leaves the queue of every other source as it was.
C19_ReadFromFirstReadableSource ==
  [][(/\ IsReadEv(ev')
      /\ DOMAIN pending_writers[ev'.bus] = {}
      /\ \E i \in 1..Len(Sources(ev'.bus)) : SourceCanRead(Sources(ev'.bus)[i]))
     => LET srcs == Sources(ev'.bus)
            first == CHOOSE i \in 1..Len(srcs) :
                       /\ SourceCanRead(srcs[i])
                       /\ \A j \in 1..(i - 1) : ~SourceCanRead(srcs[j])
            s == srcs[first]
        IN /\ acc'[ev'.c] = IF queue[s] = <<>> THEN EmptyRead ELSE Head(queue[s])
           /\ queue' = [queue EXCEPT ![s] = IF @ = <<>> THEN @ ELSE Tail(@)]
           /\ pending_readers' = pending_readers
           /\ pending_writers' = pending_writers
           /\ chan' = chan
           /\ tok' = tok
           /\ cstate'[ev'.c] = "run"]_vars

\* C19 witness: a read on the bus with two sources has just taken the value of
\* the first source while the second one was readable too, and left it alone
C19_Witness ==
  /\ ev.kind = "ReadFromSource"
  /\ ev.bus = "two"
  /\ ev.peer = "s1"
  /\ queue["s2"] # <<>>
  /\ acc[ev.c] = ev.val

\* a bus holds something a read() would return at once
BusReadable(b) ==
  \/ DOMAIN pending_writers[b] # {}
  \/ \E i \in 1..Len(Sources(b)) : SourceCanRead(Sources(b)[i])

\* bus.sleep() returns without posting exactly when the bus is readable and
\* otherwise posts XBusSleep(bus)
SleepFollowsCanRead ==
  /\ [](\A b \in Buses : can_read(b) <=> BusReadable(b))
  /\ [][ev'.kind = "SleepReturn" =>
          /\ BusReadable(ev'.bus)
          /\ chan' = chan
          /\ tok' = tok
          /\ cstate'[ev'.c] = "run"]_vars
  /\ [][ev'.kind = "SleepPark" =>
          /\ ~BusReadable(ev'.bus)
          /\ tok'[ev'.c] = [kind |-> "XBusSleep", t |-> 0, bus |-> ev'.bus]
          /\ cstate'[ev'.c] = "post"]_vars

\* true is sent to controller c, parked with XBusSleep
SlxWoken(c) ==
  wake[c] # "true" /\ wake'[c] = "true" /\ sleepers[c].kind = "XBusSleep"

\* C20: can_read() is true exactly when pending_writers is nonempty or some
\* connected source reports can_read(); bus.sleep() returns without posting
\* exactly when that holds and otherwise posts XBusSleep(bus); the wake loop
\* sends true to an XBusSleep sleeper only in a state where it holds.
C20_SlxFollowsCanRead ==
  /\ SleepFollowsCanRead
  /\ [][\A c \in Ctrl : SlxWoken(c) => BusReadable(sleepers[c].bus)]_vars

\* C20 with the wake-up as the loop does it: an XBusSleep sleeper is sent true
\* only when can_read() was true in the state where the wake loop evaluated
\* its entry; the entry stays the loop's current one, with its token, until
\* the send, and the send follows whether or not the bus is still readable.
C20_SlxWokenIfReadableAtCheck ==
  /\ SleepFollowsCanRead
  /\ [][\A c \in Ctrl : SlxWoken(c) => checked = c /\ ev'.kind = "Wake"]_vars
  /\ [][\A c \in Ctrl :
          (checked # c /\ checked' = c /\ sleepers[c].kind = "XBusSleep")
          => /\ ev'.kind = "Check"
             /\ BusReadable(sleepers[c].bus)
             /\ wake[c] = "none" /\ cstate[c] = "parked"]_vars
  /\ [][\A c \in Ctrl :
          (checked = c /\ sleepers[c].kind = "XBusSleep")
          => \/ checked' = c /\ sleepers'[c] = sleepers[c] /\ wake'[c] = "none"
             \/ checked' = "none" /\ wake'[c] = "true"]_vars

\* C20 witness: true has just been sent to a sleeper parked with XBusSleep on
\* a bus that was readable when its entry was evaluated and is not any more:
\* another sleeper, woken before it, has taken the value
C20_Witness ==
  /\ ev.kind = "Wake" /\ ev.val = 1 /\ ev.peer = "XBusSleep"
  /\ wake[ev.c] = "true"
  /\ ~BusReadable(ev.bus)

\* a bus.sleep() has just returned at once on a bus whose only readable thing
\* is a pending writer
C20_WitnessSleepReturn ==
  /\ ev.kind = "SleepReturn"
  /\ DOMAIN pending_writers[ev.bus] # {}
  /\ Sources(ev.bus) = <<>>

\* controller c has been woken and is in a loop of its body that reaches no
\* sleep, no bus.sleep and no read or write
Spinning(c) ==
  /\ cstate[c] = "run"
  /\ \A ins \in Body(c)[ip[c]] : ins.op = "spin"

\* C21: once a woken controller is in a loop that never posts a sleep token,
\* the advance() that woke it neither returns nor reports a deadlock nor
\* starts another tick: it ends in the fatal timeout of await_sleepers; when
\* the body is such a loop from its first instruction, this is the first
\* advance().
C21_SpinEndsInTimeout ==
  /\ [][(\E c \in Ctrl : Spinning(c)) =>
          /\ spc \in {"iter", "await", "timeout"}
          /\ spc' \in {"iter", "await", "timeout"}
          /\ time' = time]_vars
  /\ []((\E c \in Ctrl : Spinning(c)) => <>(spc = "timeout"))
  /\ [](cfg = "spin0" /\ spc = "idle" => time = 0)
  /\ [](cfg = "spin0" /\ spc = "timeout" => time = 1)
  /\ [](cfg = "spin0" /\ InAdvance => <>(spc = "timeout"))

\* C21 witness: the first advance() has ended in the timeout; one controller
\* loops without posting and the other has posted its sleep and is parked
C21_Witness ==
  /\ cfg = "spin0" /\ spc = "timeout" /\ time = 1
  /\ Spinning("a")
  /\ cstate["b"] = "parked" /\ sleepers["b"] = TimeTok(2)

\* C22: time starts at 0, each advance() call increases it by exactly 1, and
\* no scheduler operation ever decreases it.
C22_TimeNeverDecreases ==
  /\ [](spc = "idle" /\ ev.kind = "Init" => time = 0)
  /\ [][time' = time \/ (time' = time + 1 /\ InAdvance')]_vars

\* what the scheduler does instead: time starts at 0; each advance() call
\* increases it by exactly 1 (the first call after it has received the startup
\* posts, every other call on entry) and changes it nowhere else; inject()
\* leaves it alone; end() sets it to -1, whatever it was.
C22_TimeStepsByOneUntilEnd ==
  /\ [](ev.kind = "Init" => time = 0)
  /\ [](spc = "await0" => time = 0)
  /\ [][spc = "idle" /\ spc' = "await0" => time = 0 /\ time' = 0]_vars
  /\ [][spc = "idle" /\ spc' = "iter" => time >= 1 /\ time' = time + 1]_vars
  /\ [][spc = "await0" /\ spc' # "await0" =>
          \/ spc' = "iter" /\ time' = 1
          \/ spc' = "timeout" /\ time' = 0]_vars
  /\ [][(spc \in {"iter", "await", "deadlock", "timeout", "ended"})
          => (time' = time)]_vars
  /\ [][ev'.kind = "Inject" => time' = time]_vars
  /\ [][ev'.kind = "End" => time' = -1]_vars
  /\ [](time >= 0 \/ (time = -1 /\ spc = "ended"))

\* end() has been called after two advance() calls returned, and time has
\* gone from 2 to -1
C22_Witness ==
  /\ spc = "ended" /\ time = -1
  /\ \E c \in DOMAIN sleepers : sleepers[c].kind = "Time" /\ sleepers[c].t = 3

\* C23 as stated: advance() reports a deadlock only when every entry of the
\* registry holds XBusRead or XBusWrite; with one controller parked on a bus
\* read or write and another on Time(t) or XBusSleep it does not.
C23_DeadlockOnlyWhenAllBlocked ==
  spc = "deadlock" =>
    \A n \in DOMAIN sleepers : sleepers[n].kind \in {"XBusRead", "XBusWrite"}

\* C23 amended: advance() reports a deadlock exactly when a pass of the wake
\* loop has woken nobody and at least one entry of the registry holds XBusRead
\* or XBusWrite, whatever the other entries hold (Time(t) for a later tick and
\* XBusSleep included); it returns normally exactly when such a pass leaves no
\* such entry; when the deadlock is reported every controller is registered
\* and no entry is runnable.
C23_DeadlockWhenAnyBlocked ==
  /\ [][spc # "deadlock" /\ spc' = "deadlock" =>
          /\ spc = "iter" /\ todo = {} /\ run_count = 0
          /\ \E n \in DOMAIN sleepers : sleepers[n].kind \in {"XBusRead", "XBusWrite"}]_vars
  /\ [][spc = "iter" /\ spc' = "idle" =>
          /\ todo = {} /\ run_count = 0
          /\ \A n \in DOMAIN sleepers : sleepers[n].kind \in {"Time", "XBusSleep"}]_vars
  /\ [][(spc = "iter" /\ todo = {} /\ run_count = 0 /\ ev'.kind = "PassEnd") =>
          spc' \in {"idle", "deadlock"}]_vars
  /\ [](spc = "deadlock" =>
          /\ DOMAIN sleepers = Ctrl
          /\ \A n \in DOMAIN sleepers : ~can_run(n))

\* C23 witness: a deadlock has been reported with one controller parked on a
\* bus read and another parked on Time(t) for a later tick
C23_Witness ==
  /\ spc = "deadlock"
  /\ \E n \in DOMAIN sleepers : sleepers[n].kind = "XBusRead"
  /\ \E n \in DOMAIN sleepers : sleepers[n].kind = "Time" /\ sleepers[n].t > time

\* advance() has returned for the current row of FileRunner::verify and the
\* outputs have not been read yet
RowDone == spc = "idle" /\ row.adv

\* what sink k has received since the advance() of the current row was called
Received(k) == SubSeq(sinkq[k], row.base[k] + 1, Len(sinkq[k]))

\* C24: for the body of Math::execute (bus.sleep(); a = read of the blocking
\* input bus; b = the simple input; write a + b to the output sink; store
\* a - b in the simple output): when k values have been injected before an
\* advance(), that advance() returns with the input queue empty, the sink
\* having received exactly the k sums in injection order (after what it held
\* when advance() was called), the simple output holding
\* the last difference and the controller parked on XBusSleep; with k = 0 no
\* step of that advance() changes a pin or the sink, and a controller that
\* was parked on XBusSleep is not woken.
C24_BurstConsumedInOrder ==
  /\ [](cfg = "math" /\ RowDone =>
          /\ queue["bsrc"] = <<>>
          /\ Received("snk") = [i \in 1..Len(row.vals) |-> row.vals[i][2] + pin["q"]]
          /\ Len(sinkq["snk"]) = row.base["snk"] + Len(row.vals)
          /\ Len(row.vals) >= 1 => pin["p"] = row.vals[Len(row.vals)][2] - pin["q"]
          /\ cstate["a"] = "parked" /\ wake["a"] = "none"
          /\ sleepers["a"] = [kind |-> "XBusSleep", t |-> 0, bus |-> "in"])
  /\ [][(cfg = "math" /\ row.vals = <<>> /\ row.adv /\ row'.adv /\ spc' # "ended") =>
          /\ pin' = pin
          /\ sinkq' = sinkq
          /\ Received("snk") = <<>>
          /\ time >= 2 => cstate'["a"] = "parked" /\ wake'["a"] = "none"]_vars

\* C24 witness: the second advance() has returned after two different values
\* were injected, the simple input being 10: both sums are in the sink, in
\* injection order
C24_Witness ==
  /\ cfg = "math" /\ RowDone /\ time = 2
  /\ Len(row.vals) = 2
  /\ row.vals[1][2] = 2 /\ row.vals[2][2] = 1
  /\ pin["q"] = 10
  /\ row.base["snk"] = 0 /\ sinkq["snk"] = <<12, 11>>
  /\ pin["p"] = -9

(* C25: for every value v, a write of v to the expander bus (p0, p1, p2
   connected) leaves p2, p1, p0 at 100 where the hundreds, tens, ones decimal
   digit of |v| is nonzero and at 0 elsewhere; the read that follows returns
   the number whose digits are 1 where the digit of v is nonzero; neither
   operation suspends.  Checked on program expand, which keeps v in dat. *)
Digit(v, k) == (Abs(v) \div (10 ^ k)) % 10
DigitBit(v, k) == IF Digit(v, k) # 0 THEN 1 ELSE 0
C25_ExpanderRoundTrip ==
  cfg = "expand" =>
    /\ (ev.kind = "WriteToSink" /\ ev.bus = "ex") =>
          /\ ev.val = dat["a"]
          /\ pin["p2"] = PinHigh * DigitBit(ev.val, 2)
          /\ pin["p1"] = PinHigh * DigitBit(ev.val, 1)
          /\ pin["p0"] = PinHigh * DigitBit(ev.val, 0)
          /\ cstate["a"] = "run" /\ ip["a"] = 3
    /\ (ev.kind = "ReadFromSource" /\ ev.bus = "ex") =>
          /\ acc["a"] = 100 * DigitBit(dat["a"], 2) + 10 * DigitBit(dat["a"], 1)
                          + DigitBit(dat["a"], 0)
          /\ ev.val = acc["a"]
          /\ cstate["a"] = "run" /\ ip["a"] = 4
    /\ ev.bus = "ex" => ev.kind \in {"WriteToSink", "ReadFromSource"}

\* the round trip restricted to |v| < 1000, where `abs_val >= 100` says that
\* the hundreds digit is nonzero
C25_RoundTripBelow1000 ==
  (cfg = "expand" /\ Abs(dat["a"]) >= 1000) \/ C25_ExpanderRoundTrip

\* 573 has been written and read back: pins 100, 100, 100 and 111
C25_Witness573 ==
  /\ cfg = "expand" /\ ev.kind = "ReadFromSource" /\ dat["a"] = 573
  /\ pin["p2"] = 100 /\ pin["p1"] = 100 /\ pin["p0"] = 100 /\ acc["a"] = 111

\* 1000 has been written: the hundreds digit is 0 and p2 is 100
C25_Witness1000 ==
  /\ cfg = "expand" /\ ev.kind = "WriteToSink" /\ dat["a"] = 1000
  /\ pin["p2"] = 100 /\ pin["p1"] = 0 /\ pin["p0"] = 0

(* C26: RAM round trip.  For i in {0, 1} and every integer p, writing p to
   addr_i sets pointer i to p reduced by a true modulo into 0..13; writing v
   to data_i, writing p to addr_i again and reading data_i returns v; every
   data read or write advances pointer i by exactly 1 modulo 14 and leaves
   the other pointer alone; a sequence of writes followed by a pointer reset
   and the same number of reads returns the written values in order. *)
RamTrips == {"ram0", "ram1"}

\* the values a body writes to the data buses, in program order
DataWrites(body) ==
  LET F[k \in 0..Len(body)] ==
        IF k = 0 THEN <<>>
        ELSE LET ins == CHOOSE x \in body[k] : TRUE IN
             IF ins.op = "write" /\ ins.bus \in {"data0", "data1"}
               THEN Append(F[k - 1], ins.val) ELSE F[k - 1]
  IN F[Len(body)]

\* writes to addr_i and the round trip of programs ram0 and ram1
RamTripState ==
  /\ (ev.kind = "WriteToSink" /\ ev.peer \in AddrPins) =>
        mem.pointers[PinIndex(ev.peer)] = ev.val % MemSize
  /\ (cfg \in RamTrips /\ ev.kind = "ReadFromSource") =>
        /\ ev.peer = (IF cfg = "ram0" THEN "d0" ELSE "d1")
        /\ ev.val = dat["a"] /\ acc["a"] = dat["a"]
  /\ (ev.peer \in AddrPins \cup DataPins) => ev.kind \in {"WriteToSink", "ReadFromSource"}

\* a data read or write advances its pointer by 1 modulo 14; a pointer moves
\* in no other way than by a data operation or an address write on its index
RamPointerStep ==
  /\ (ev'.kind \in {"WriteToSink", "ReadFromSource"} /\ ev'.peer \in DataPins) =>
        /\ mem'.pointers[PinIndex(ev'.peer)] = (mem.pointers[PinIndex(ev'.peer)] + 1) % MemSize
        /\ mem'.pointers[1 - PinIndex(ev'.peer)] = mem.pointers[1 - PinIndex(ev'.peer)]
  /\ \A i \in {0, 1} :
        mem'.pointers[i] # mem.pointers[i] =>
          ev'.peer \in AddrPins \cup DataPins /\ PinIndex(ev'.peer) = i

\* the values the reads of a sequence program returned, as the sink shows them
\* when advance() has returned
RamSequenceReadBack(programs) ==
  (cfg \in programs /\ spc = "idle" /\ row.adv) =>
     Received("snk") = DataWrites(Body("a"))

C26_RamRoundTrip ==
  /\ [](RamTripState /\ RamSequenceReadBack({"ramq", "ramseq14", "ramseq15"}))
  /\ [][RamPointerStep]_vars

\* the same with the sequences of at most 14 writes
C26_RamRoundTripUpTo14 ==
  /\ [](RamTripState /\ RamSequenceReadBack({"ramq", "ramseq14"}))
  /\ [][RamPointerStep]_vars

\* a round trip through cell 13 on index 1 with p in {-15, -1, 27}: the read
\* returned the value written and moved the pointer from 13 to 0
C26_Witness ==
  /\ cfg = "ram1" /\ ev.kind = "ReadFromSource" /\ ev.peer = "d1"
  /\ ev.val = 2 /\ dat["a"] = 2 /\ mem.contents[13] = 2
  /\ mem.pointers[1] = 0 /\ mem.pointers[0] = 0

\* fourteen writes have been read back in order
C26_WitnessSequence ==
  /\ cfg = "ramseq14" /\ spc = "idle" /\ row.adv
  /\ Received("snk") = [i \in 1..MemSize |-> i]

(* C27: input sources deliver the injected values in FIFO order, each exactly
   once: inject appends at the back, a read takes the front value and removes
   it, and nothing else changes a queue.  A read on the bus of a nonblocking
   source never suspends and returns -999 when the queue is empty; a read on
   the bus of a blocking source with an empty queue (no pending writer)
   suspends the caller as a pending reader. *)
ReadKinds == {"ReadFromSource", "ReadFromWriter", "ReadPark"}
SourceQueueStep ==
  /\ ev'.kind = "Inject" =>
        queue' = [queue EXCEPT ![ev'.peer] = Append(@, ev'.val)]
  /\ (ev'.kind = "ReadFromSource" /\ ev'.peer \in SourceIds) =>
        /\ queue[ev'.peer] # <<>> =>
              /\ ev'.val = Head(queue[ev'.peer])
              /\ queue' = [queue EXCEPT ![ev'.peer] = Tail(@)]
        /\ queue[ev'.peer] = <<>> =>
              ev'.peer = "nsrc" /\ ev'.val = EmptyRead /\ queue' = queue
        /\ acc'[ev'.c] = ev'.val /\ cstate'[ev'.c] = "run"
  /\ queue' # queue =>
        ev'.kind = "Inject" \/ (ev'.kind = "ReadFromSource" /\ ev'.peer \in SourceIds)
NonBlockingReadStep ==
  (ev'.kind \in ReadKinds /\ ev'.bus = "nb" /\ DOMAIN pending_writers["nb"] = {}) =>
     /\ ev'.kind = "ReadFromSource" /\ ev'.peer = "nsrc"
     /\ cstate'[ev'.c] = "run" /\ ip'[ev'.c] = (ip[ev'.c] % Len(Body(ev'.c))) + 1
     /\ ev'.c \notin pending_readers'["nb"]
BlockingReadStep ==
  (ev'.kind \in ReadKinds /\ ev'.bus = "in" /\ DOMAIN pending_writers["in"] = {}) =>
     IF queue["bsrc"] = <<>>
       THEN /\ ev'.kind = "ReadPark"
            /\ pending_readers'["in"] = pending_readers["in"] \cup {ev'.c}
            /\ cstate'[ev'.c] \in {"unlock", "post"}
            /\ tok'[ev'.c] = BusTok("XBusRead", "in")
            /\ ip'[ev'.c] = ip[ev'.c] /\ acc'[ev'.c] = acc[ev'.c]
       ELSE ev'.kind = "ReadFromSource" /\ ev'.peer = "bsrc"
C27_InputSourcesFifo ==
  [][SourceQueueStep /\ NonBlockingReadStep /\ BlockingReadStep]_vars

\* 1 then 2 were injected into the blocking source and the first read has
\* returned 1, leaving 2 in the queue
C27_Witness ==
  /\ cfg = "rdin" /\ ev.kind = "ReadFromSource" /\ ev.peer = "bsrc" /\ ev.val = 1
  /\ row.vals = <<<<"bsrc", 1>>, <<"bsrc", 2>>>> /\ queue["bsrc"] = <<2>>
  /\ acc["a"] = 1

(* C28: gen!(pin, on, off) started during tick T with on > 0 leaves the pin
   at 100 at the return of the advance() calls for ticks T .. T+on-1 and at 0
   from tick T+on for off ticks; after the macro has run the pin is 0, also
   when off is 0.  Checked on the pulse programs, whose body is a gen! on pin
   p followed by a bus write: the first gen! starts in tick 1 and the next
   one in the tick in which the previous one has ended. *)
PulseConfigs == {"pulse21", "pulse12", "pulse10"}
PulseSteps(c) ==
  CASE c = "pulse21" -> [on |-> 2, off |-> 1]
    [] c = "pulse12" -> [on |-> 1, off |-> 2]
    [] OTHER -> [on |-> 1, off |-> 0]
PulseReturned ==
  LET on == PulseSteps(cfg).on
      off == PulseSteps(cfg).off
      T == hist["a"].at
  IN /\ cstate["a"] = "parked" /\ wake["a"] = "none" /\ ip["a"] \in {2, 4}
     /\ pin["p"] = (IF (time - 1) % (on + off) < on THEN PinHigh ELSE 0)
     /\ ip["a"] = 2 => /\ pin["p"] = PinHigh
                       /\ T <= time /\ time <= T + on - 1
                       /\ sleepers["a"] = TimeTok(T + on)
     /\ ip["a"] = 4 => /\ pin["p"] = 0
                       /\ T <= time /\ time <= T + off - 1
                       /\ sleepers["a"] = TimeTok(T + off)
PulseSwitch ==
  (cfg \in PulseConfigs /\ ev'.kind = "PinStore" /\ ev'.val = 0) =>
     /\ ip["a"] = 3 /\ pin["p"] = PinHigh /\ pin'["p"] = 0
     /\ time = hist["a"].at + PulseSteps(cfg).on
C28_GenPulse ==
  /\ [](cfg \in PulseConfigs =>
          /\ (spc = "idle" /\ row.adv) => PulseReturned
          /\ (cstate["a"] = "run" /\ ip["a"] = Len(Body("a"))) => pin["p"] = 0)
  /\ [][PulseSwitch]_vars

\* gen!(p, 2, 1) started in tick 1: the advance() for tick 3 has returned with
\* the pin at 0, after ticks 1 and 2 with the pin at 100
C28_Witness ==
  /\ cfg = "pulse21" /\ spc = "idle" /\ row.adv /\ time = 3
  /\ pin["p"] = 0 /\ ip["a"] = 4 /\ hist["a"].at = 3

(* C29: stop propagation.  When a parked controller receives false on its
   wakeup channel, the primitive it is parked in (sleep, bus.sleep, bus.read
   or bus.write) returns Err: the thread ends at once, a parked read yields no
   value (acc keeps its value), execute() is not called again, and the
   thread performs no further step on a bus, a pin, a queue or the RAM. *)
StopStep ==
  \A c \in Ctrl :
    /\ (cstate[c] = "parked" /\ wake[c] = "false" /\ cstate'[c] # cstate[c]) =>
          /\ ev' = Event("Stop", c, tok[c].bus, 0, tok[c].kind)
          /\ cstate'[c] = "done"
          /\ acc' = acc /\ dat' = dat /\ ip' = ip /\ tok' = tok
          /\ UNCHANGED <<busVars, pin, mem, lock, chan>>
    /\ (ev'.kind = "Stop" /\ ev'.c = c) =>
          cstate[c] = "parked" /\ wake[c] = "false"
    /\ cstate[c] = "done" =>
          /\ cstate'[c] = "done" /\ ev'.c # c
          /\ acc'[c] = acc[c] /\ dat'[c] = dat[c] /\ ip'[c] = ip[c] /\ tok'[c] = tok[c]
          /\ \A i \in 1..Len(chan') : chan'[i].name = c => i <= Len(chan)
C29_StopPropagates == [][StopStep]_vars

\* after a reported deadlock and end(): b, parked in y.write, has ended,
\* and a, parked in x.read, has just ended without a value
C29_Witness ==
  /\ cfg = "stuck" /\ ev = Event("Stop", "a", "x", 0, "XBusRead")
  /\ cstate["a"] = "done" /\ cstate["b"] = "done" /\ tok["b"].kind = "XBusWrite"
  /\ "a" \in pending_readers["x"] /\ acc["a"] = 0 /\ ip["a"] = 1

(* C30: no controller holds a bus's exclusive lock while it is parked.  The
   lock of a bus is held only by a thread inside the block of read() or
   write() on that bus, which releases it by its own next step, before the
   sleep token is posted; a thread that is about to post, has posted, is
   parked or has ended holds no lock, so the scheduler's checks and the other
   controllers' operations on the bus wait for no parked controller. *)
HoldsNoLock(c) == \A b \in Buses : lock[b] # c
LockOnlyInsideBlock ==
  /\ \A c \in Ctrl : cstate[c] \in {"post", "parked", "done", "run"} => HoldsNoLock(c)
  /\ \A b \in Buses :
        lock[b] # "none" =>
          /\ lock[b] \in Ctrl /\ cstate[lock[b]] = "unlock" /\ tok[lock[b]].bus = b
          /\ tok[lock[b]].kind \in {"XBusRead", "XBusWrite"}
  /\ \A i \in 1..Len(chan) : HoldsNoLock(chan[i].name)
PostAfterRelease ==
  /\ (ev'.kind = "Post" /\ ev'.c \in Ctrl) =>
        /\ \A b \in Buses : lock[b] # ev'.c /\ lock'[b] # ev'.c
        /\ lock' = lock
  /\ \A b \in Buses :
        (lock[b] # "none" /\ cstate'[lock[b]] # cstate[lock[b]]) =>
           ev'.kind = "Unlock" /\ lock'[b] = "none" /\ chan' = chan
C30_NoLockWhileParked ==
  /\ []LockOnlyInsideBlock
  /\ [][PostAfterRelease]_vars

\* b has written on bus x to the pending reader a while a was parked in
\* x.read(): the lock of x was free
C30_Witness ==
  /\ cfg = "stuck" /\ ev = Event("WriteToReader", "b", "x", 2, "a")
  /\ cstate["a"] = "parked" /\ tok["a"] = BusTok("XBusRead", "x")
  /\ lock["x"] = "none" /\ cell["a"] = 2

(* C31: each runnable entry is removed from the sleeper registry when true is
   sent on its wakeup channel: at every moment a controller is either running
   (woken, or executing its body) and absent from the registry, or parked and
   present in it with its current token; the registry never holds the token
   of a controller that has been woken from it. *)
PostReceived(c) ==
  /\ cstate[c] = "parked" /\ wake[c] = "none"
  /\ \A i \in 1..Len(chan) : chan[i].name # c
ParkedPresent ==
  \A c \in Ctrl :
    PostReceived(c) =>
      /\ c \in DOMAIN sleepers
      /\ sleepers[c].kind = tok[c].kind /\ sleepers[c].bus = tok[c].bus
      /\ tok[c].kind = "Time" => sleepers[c].t = hist[c].at + tok[c].t
RunningAbsent ==
  \A c \in Ctrl :
    (wake[c] = "true" \/ cstate[c] \in {"run", "unlock"}) => c \notin DOMAIN sleepers
C31_WokenEntryRemoved == (spc # "ended") => (ParkedPresent /\ RunningAbsent)

\* the part that holds: a controller whose post has been received is in the
\* registry with the token it posted
C31_ParkedEntryCurrent == (spc # "ended") => ParkedPresent

\* true has been sent to a, and the registry still holds a's startup token
C31_WitnessStale ==
  /\ cfg = "rendez" /\ time = 1 /\ wake["a"] = "true"
  /\ "a" \in DOMAIN sleepers /\ sleepers["a"] = TimeTok(0)

(* C32: whenever advance() returns normally, pending_readers and
   pending_writers of every bus are empty: no value written by a controller
   and no unanswered read is carried across a timestep boundary; only the
   queues of input sources hold values across ticks. *)
PendingMapsEmpty ==
  \A b \in Buses : pending_readers[b] = {} /\ DOMAIN pending_writers[b] = {}
C32_NoPendingAcrossTicks == Returned => PendingMapsEmpty

\* advance() has returned from a tick in which a value went from a to b on
\* bus x through a pending map, and on to the sink
C32_Witness ==
  /\ cfg = "rendez" /\ Returned /\ time = 1
  /\ sinkq["snk"] \in {<<1>>, <<2>>} /\ acc["b"] = sinkq["snk"][1]
  /\ delivered["a"] = 1 /\ PendingMapsEmpty

(* C33: fixed point on return.  Whenever advance() returns normally, no
   registry entry satisfies its wake condition: every Time(t) entry has
   t > time and every XBusSleep(bus) entry has bus.can_read() false (and no
   entry is an XBusRead or XBusWrite), so no controller that could run in the
   current tick is left parked. *)
JustReturned == spc = "idle" /\ ev = NoEvent("PassEnd")
C33_FixedPointOnReturn ==
  JustReturned =>
    \A n \in DOMAIN sleepers :
      /\ ~can_run(n)
      /\ sleepers[n].kind \in {"Time", "XBusSleep"}
      /\ sleepers[n].kind = "Time" => sleepers[n].t > time
      /\ sleepers[n].kind = "XBusSleep" => ~can_read(sleepers[n].bus)
      /\ cstate[n] = "parked" /\ wake[n] = "none"

\* advance() has returned with one controller parked until the next tick and
\* another parked with XBusSleep on a bus that cannot be read
C33_Witness ==
  /\ cfg = "slx2" /\ JustReturned /\ time = 1
  /\ sleepers["a"] = TimeTok(2)
  /\ sleepers["c"] = BusTok("XBusSleep", "x") /\ ~can_read("x")

(* C34: pending maps and tokens stay linked.  In every reachable state before
   end(): a key c of pending_readers (pending_writers) of bus B is not
   running body code past that call, it is about to post or is parked with
   token XBusRead(B) (XBusWrite(B)); c is a key of at most one pending map
   over all buses; and a controller parked with XBusRead(B) / XBusWrite(B)
   that is no longer in B's map is woken in the current or the next pass of
   the wake loop: the entry visited in that state is found runnable and then
   woken, it stays out of the map until it is woken, a pass that has already visited it is followed
   (and whose send is not still due) is followed by another pass, and the loop does not end while such a controller waits. *)
PendingKeys(c) ==
  {<<b, "XBusRead">> : b \in {x \in Buses : c \in pending_readers[x]}}
  \cup {<<b, "XBusWrite">> : b \in {x \in Buses : c \in DOMAIN pending_writers[x]}}
KeyLinked(c) ==
  \A k \in PendingKeys(c) :
    /\ cstate[c] \in {"unlock", "post", "parked"}
    /\ tok[c] = BusTok(k[2], k[1])
    /\ wake[c] = "none"
Answered(c) ==
  /\ cstate[c] = "parked" /\ wake[c] = "none"
  /\ tok[c].kind \in {"XBusRead", "XBusWrite"}
  /\ PendingKeys(c) = {}
LinkedState ==
  \A c \in Ctrl :
    /\ KeyLinked(c)
    /\ Cardinality(PendingKeys(c)) <= 1
    /\ Answered(c) =>
         /\ spc \notin {"idle", "deadlock", "timeout"}
         /\ (spc = "iter" /\ c \notin todo /\ checked # c) => run_count > 0
LinkedStep ==
  \A c \in Ctrl :
    Answered(c) =>
      /\ (ev'.kind = "Check" /\ ev'.c = c) => checked' = c
      /\ (ev'.kind = "Wake" /\ ev'.c = c) => wake'[c] = "true" /\ ev'.val = 1
      /\ (~Answered(c)' /\ spc' # "ended") => wake'[c] = "true"
C34_PendingMapsLinked ==
  /\ [](spc # "ended" => LinkedState)
  /\ [][spc # "ended" => LinkedStep]_vars

\* b, parked in x.read(), has received a value from a (it is no longer in the
\* map of x) and the wake loop has just woken it
C34_Witness ==
  /\ cfg = "rendez" /\ ev = Event("Wake", "b", "x", 1, "XBusRead")
  /\ wake["b"] = "true" /\ cstate["b"] = "parked" /\ tok["b"] = BusTok("XBusRead", "x")
  /\ "b" \notin pending_readers["x"] /\ cell["b"] \in {1, 2}

====
